---- MODULE Spec2Model ----
(***************************************************************************)
(* Fast-Forward Queue (FFQ) over an MPI one-sided window: one producer     *)
(* (MPI rank 0, owner of the window) and several consumers.                *)
(*                                                                         *)
(* Two implementations of the same protocol are modelled side by side:     *)
(*   impl = "orig"  ffq_enqueue / ffq_dequeue            (spmc/src/ffq.c)   *)
(*   impl = "opt"   ffq_enqueue_optimized / ffq_dequeue_optimized          *)
(*                                                  (unnamed/part_005)     *)
(*                                                                         *)
(* Atomicity.  Every access to the window happens inside an                *)
(* MPI_Win_lock / MPI_Win_unlock epoch on target 0.  An exclusive epoch    *)
(* excludes every other epoch, a shared epoch excludes exclusive ones.     *)
(* The producer's exclusive epoch holds several writes, so it is modelled  *)
(* write by write with the lock held in win_lock.  A consumer epoch is     *)
(* either a group of MPI_Get (shared) or one MPI_Get_accumulate / a pair   *)
(* of MPI_Put (exclusive); nothing can run inside it, so each consumer     *)
(* epoch is one action that needs the window to be free.                   *)
(***************************************************************************)
EXTENDS Integers, Sequences, FiniteSets, Bags, TLC

\* ------------------------------------------------------------ bounds
QSize == 2          \* N, the number of cells (config.queue_size)
NumConsumers == 2   \* MPI ranks 1..NumConsumers
NumItems == 3       \* num_items of run_producer
MaxTail == 5        \* the producer stops processing ranks at MaxTail
MAX_RETRIES == 2    \* the retry cap of ffq_dequeue_optimized, scaled down
NumPayloads == 9    \* distinct payload values a caller may pass to enqueue
BackoffPolls == 10  \* retry cap where the backoff is studied: polls enough to reach MAX_BACKOFF
BENCHMARK_ITEMS == 1  \* items of run_benchmark_producer before the sentinels, scaled down
MAX_QUEUE_ITEMS == 3  \* length of the gateway's data_buffer, scaled down (100 in the code)
GatewayItems == 5     \* items the listener thread generates

\* ------------------------------------------------------------ constants
EMPTY_CELL == -1
BACKOFF_START == 100
MAX_BACKOFF == 10000

Consumers == 1..NumConsumers
\* the MPI processes: rank 0 owns the window and produces
Procs == 0..NumConsumers
Slots == 0..(QSize - 1)
Ranks == 0..(MaxTail - 1)
\* head is capped so that the state space is finite: the ranks that can be
\* claimed are the ranks the producer can process
MaxHead == MaxTail
\* a zeroed WeatherData (memset 0): no item
NoItem == 0
\* a zeroed DataItem: what the static data_buffer holds before any store
NoDataItem == 0
BufferSlots == 0..(MAX_QUEUE_ITEMS - 1)
Items == 1..NumItems
\* the WeatherData values of a caller that is free in what it enqueues
Payloads == 1..NumPayloads

VARIABLES
    impl,               \* which pair of functions the program is built with
    queue_size,         \* config.queue_size, from the command line
    ipc,                \* position of each process in parse_args / ffq_init
    abort_code,         \* <<>>, or <<e>> once MPI_Abort(MPI_COMM_WORLD, e) was called
    size,               \* queue->size
    p_local_size,       \* opt: handle->local_size of the producer
    win_lock,           \* "free", or "producer" inside the producer's exclusive epoch
    cells,              \* queue->cells[i] = [rank, gap, data]
    head,               \* queue->head
    tail,               \* queue->tail
    lastItemDequeued,   \* queue->lastItemDequeued
    \* producer (rank 0)
    ppc,                \* position of the producer
    p_i,                \* loop index i of run_producer: items enqueued so far
    p_item,             \* the item argument of the enqueue call
    local_tail,         \* local_tail of the enqueue call
    p_cell_rank,        \* cell_rank read by the enqueue iteration
    p_pending,          \* opt: MPI_Put issued in the epoch and not yet complete
    p_backoff,          \* opt: backoff_us of the enqueue call
    \* consumers (ranks 1..)
    cpc,                \* position of each consumer
    fetch_rank,         \* the rank the dequeue call holds
    local_size,         \* queue size as the dequeue call knows it
    cell_rank, cell_gap, cell_data, lastItem,   \* the snapshot of one loop iteration
    item,               \* *item, the output of the call
    retry_count,        \* opt: loop iterations of the call
    backoff_us,         \* opt: backoff of the call
    \* what the program prints / returns, kept to state the properties
    claimed,            \* values obtained from the fetch-and-add on head, in order
    published,          \* rank -> the item written when that rank was published
    skipped,            \* ranks for which the producer wrote a gap
    returned,           \* the bag of <<rank, item>> that dequeue calls returned
    \* the gateway of the stream producer (threads of rank 0)
    buffer_mutex,       \* "free", or the thread that holds buffer_mutex
    data_buffer,        \* data_buffer[i]: the id of the DataItem stored there
    buffer_head,        \* buffer_head
    buffer_tail,        \* buffer_tail
    next_id,            \* static int next_id of generate_synthetic_data
    lpc,                \* position of the listener thread
    l_item,             \* the item the listener thread is adding
    gpc,                \* position of the caller of gateway_get_next
    g_item,             \* *item of gateway_get_next
    g_result,           \* result of gateway_get_next
    stored,             \* the items written to data_buffer, in order
    got                 \* the items gateway_get_next returned, in order

pvars == <<ppc, p_i, p_item, local_tail, p_cell_rank, p_pending, p_backoff>>
clocals == <<local_size, cell_rank, cell_gap, cell_data, lastItem, item,
             retry_count, backoff_us>>
cvars == <<cpc, fetch_rank, clocals>>
region == <<cells, head, tail, lastItemDequeued>>
hist == <<claimed, published, skipped, returned>>
gateway == <<buffer_mutex, data_buffer, buffer_head, buffer_tail, next_id, lpc, l_item,
             gpc, g_item, g_result, stored, got>>
\* what no enqueue and no dequeue writes
fixed == <<impl, queue_size, ipc, abort_code, size, p_local_size, gateway>>
vars == <<fixed, win_lock, region, pvars, cvars, hist>>

\* ------------------------------------------------------------ helpers
\* faulty variant: the index is one cell off
Idx_offbyone(r, n) == (r + 1) % n

\* idx = rank % size
Idx(r, n) == r % n

\* generate_test_data(i + 1): the item carries its number
generate_test_data(n) == n

\* faulty variant: rank 0 counts as free
CellFree_zero(r) == r <= 0

\* faulty variant: the producer does not look at the rank of the cell
CellFree_any(r) == TRUE

\* a cell is free for the producer
CellFree(r) == r < 0

\* faulty variant: the doubling has no cap
NextBackoff_nocap(b) == b * 2

\* backoff_us = (backoff_us * 2 > MAX_BACKOFF) ? MAX_BACKOFF : backoff_us * 2
NextBackoff(b) == IF b * 2 > MAX_BACKOFF THEN MAX_BACKOFF ELSE b * 2

\* faulty variant: the readers take no lock
WinLockShared_none == TRUE

\* MPI_Win_lock: an epoch can start only when no exclusive epoch is open
WinLockShared == win_lock = "free"
WinLockExclusive == win_lock = "free"

\* faulty variant: the first test is "the cell is used", not "the cell holds my rank"
Decide_anyrank(crank, cgap, frank) ==
    IF crank >= 0 THEN "take"
    ELSE IF cgap >= frank /\ crank # frank THEN "skip"
    ELSE "wait"

\* faulty variant: the gap test is strict
Decide_strictgap(crank, cgap, frank) ==
    IF crank = frank THEN "take"
    ELSE IF cgap > frank /\ crank # frank THEN "skip"
    ELSE "wait"

\* faulty variant: any gap in the cell counts, whatever rank it names
Decide_anygap(crank, cgap, frank) ==
    IF crank = frank THEN "take"
    ELSE IF cgap >= 0 /\ crank # frank THEN "skip"
    ELSE "wait"

\* faulty variant: a cell that does not hold my rank is skipped at once
Decide_nowait(crank, cgap, frank) ==
    IF crank = frank THEN "take" ELSE "skip"

\* the three-way decision of the dequeue loop
Decide(crank, cgap, frank) ==
    IF crank = frank THEN "take"
    ELSE IF cgap >= frank /\ crank # frank THEN "skip"
    ELSE "wait"

\* faulty variant: the accumulate fetches head and adds nothing
FetchAndAdd_noadd(h) == h

\* faulty variant: head wraps around the ring
FetchAndAdd_wrap(h) == (h + 1) % QSize

\* MPI_Get_accumulate(1, MPI_SUM) on head: the new value of head
FetchAndAdd(h) == h + 1

\* ------------------------------------------------------------ initial state
\* the cells as ffq_init writes them: EMPTY_CELL, EMPTY_CELL, memset 0
EmptyCells(n) ==
    [i \in 0..(n - 1) |-> [rank |-> EMPTY_CELL, gap |-> EMPTY_CELL, data |-> NoItem]]

\* what is local to the processes, and what the program has printed: nothing
InitLocals ==
    /\ win_lock = "free"
    /\ ppc = "idle"
    /\ p_i = 0
    /\ p_item = NoItem
    /\ local_tail = 0
    /\ p_cell_rank = EMPTY_CELL
    /\ p_pending = {}
    /\ p_backoff = BACKOFF_START
    /\ cpc = [c \in Consumers |-> "idle"]
    /\ fetch_rank = [c \in Consumers |-> 0]
    /\ cell_rank = [c \in Consumers |-> EMPTY_CELL]
    /\ cell_gap = [c \in Consumers |-> EMPTY_CELL]
    /\ cell_data = [c \in Consumers |-> NoItem]
    /\ lastItem = [c \in Consumers |-> 0]
    /\ item = [c \in Consumers |-> NoItem]
    /\ retry_count = [c \in Consumers |-> 0]
    /\ backoff_us = [c \in Consumers |-> BACKOFF_START]
    /\ claimed = <<>>
    /\ published = [r \in Ranks |-> NoItem]
    /\ skipped = {}
    /\ returned = EmptyBag

\* a queue of QSize cells, every process back from ffq_init / ffq_init_optimized
\* the statics of gateway.c; gateway_start has created the listener thread and
\* run_stream_producer is at its first gateway_get_next
InitGateway ==
    /\ buffer_mutex = "free"
    /\ data_buffer = [i \in BufferSlots |-> NoDataItem]
    /\ buffer_head = 0
    /\ buffer_tail = 0
    /\ next_id = 1
    /\ lpc = "generate"
    /\ l_item = NoDataItem
    /\ gpc = "call"
    /\ g_item = NoDataItem
    /\ g_result = FALSE
    /\ stored = <<>>
    /\ got = <<>>

Init ==
    /\ impl \in {"orig", "opt"}
    /\ queue_size = QSize
    /\ ipc = [p \in Procs |-> "ready"]
    /\ abort_code = <<>>
    /\ size = QSize
    /\ p_local_size = (IF impl = "opt" THEN QSize ELSE 0)
    /\ cells = EmptyCells(QSize)
    /\ head = 0
    /\ tail = 0
    /\ lastItemDequeued = 0
    /\ local_size = [c \in Consumers |-> IF impl = "opt" THEN QSize ELSE 0]
    /\ InitLocals
    /\ InitGateway

\* ------------------------------------------------------------ producer, orig
\* entry of ffq_enqueue(queue, item, win): the call caches tail
ffq_enqueue_entry(it) ==
    /\ impl = "orig"
    /\ ipc[0] = "ready"
    /\ ppc = "idle"
    /\ p_item' = it
    /\ local_tail' = tail
    /\ ppc' = "lock"
    /\ UNCHANGED <<fixed, win_lock, region, p_i, p_cell_rank, p_pending, p_backoff, cvars, hist>>

\* run_producer: for (i = 0; i < num_items; i++) ffq_enqueue(generate_test_data(i + 1))
ffq_enqueue_call ==
    /\ p_i < NumItems
    /\ ffq_enqueue_entry(generate_test_data(p_i + 1))

\* faulty variant: the producer waits until the cell is free
ffq_enqueue_lock_blocking ==
    /\ impl = "orig"
    /\ ppc = "lock"
    /\ local_tail < MaxTail
    /\ WinLockExclusive
    /\ CellFree(cells[Idx(local_tail, size)].rank)
    /\ win_lock' = "producer"
    /\ p_cell_rank' = cells[Idx(local_tail, size)].rank
    /\ ppc' = "put_data"
    /\ UNCHANGED <<fixed, region, p_i, p_item, local_tail, p_pending, p_backoff, cvars, hist>>

\* MPI_Win_lock(EXCLUSIVE); MPI_Get(cell_rank); flush; the branch on cell_rank
ffq_enqueue_lock ==
    /\ impl = "orig"
    /\ ppc = "lock"
    /\ local_tail < MaxTail
    /\ WinLockExclusive
    /\ win_lock' = "producer"
    /\ p_cell_rank' = cells[Idx(local_tail, size)].rank
    /\ ppc' = IF CellFree(p_cell_rank') THEN "put_data" ELSE "put_gap"
    /\ UNCHANGED <<fixed, region, p_i, p_item, local_tail, p_pending, p_backoff, cvars, hist>>

\* faulty variant: the Put of the payload is missing
ffq_enqueue_put_data_missing ==
    /\ impl = "orig"
    /\ ppc = "put_data"
    /\ ppc' = "put_rank"
    /\ UNCHANGED <<fixed, win_lock, region, p_i, p_item, local_tail,
                   p_cell_rank, p_pending, p_backoff, cvars, hist>>

\* MPI_Put(item -> cells[idx].data); flush
ffq_enqueue_put_data ==
    /\ impl = "orig"
    /\ ppc = "put_data"
    /\ cells' = [cells EXCEPT ![Idx(local_tail, size)].data = p_item]
    /\ ppc' = "put_rank"
    /\ UNCHANGED <<fixed, win_lock, head, tail, lastItemDequeued, p_i, p_item, local_tail,
                   p_cell_rank, p_pending, p_backoff, cvars, hist>>

\* faulty variant: publishing a rank also resets the gap of the cell
ffq_enqueue_put_rank_resetgap ==
    /\ impl = "orig"
    /\ ppc = "put_rank"
    /\ cells' = [cells EXCEPT ![Idx(local_tail, size)].rank = local_tail,
                              ![Idx(local_tail, size)].gap = EMPTY_CELL]
    /\ published' = [published EXCEPT ![local_tail] = p_item]
    /\ ppc' = "put_tail_ok"
    /\ UNCHANGED <<fixed, win_lock, head, tail, lastItemDequeued, p_i, p_item, local_tail,
                   p_cell_rank, p_pending, p_backoff, cvars, claimed, skipped, returned>>

\* MPI_Put(local_tail -> cells[idx].rank); flush; success = true
ffq_enqueue_put_rank ==
    /\ impl = "orig"
    /\ ppc = "put_rank"
    /\ cells' = [cells EXCEPT ![Idx(local_tail, size)].rank = local_tail]
    /\ published' = [published EXCEPT ![local_tail] = p_item]
    /\ ppc' = "put_tail_ok"
    /\ UNCHANGED <<fixed, win_lock, head, tail, lastItemDequeued, p_i, p_item, local_tail,
                   p_cell_rank, p_pending, p_backoff, cvars, claimed, skipped, returned>>

\* faulty variant: the branch skips the rank without the Put of gap
ffq_enqueue_put_gap_nowrite ==
    /\ impl = "orig"
    /\ ppc = "put_gap"
    /\ skipped' = skipped \cup {local_tail}
    /\ ppc' = "put_tail_gap"
    /\ UNCHANGED <<fixed, win_lock, region, p_i, p_item, local_tail,
                   p_cell_rank, p_pending, p_backoff, cvars, claimed, published, returned>>

\* faulty variant: the gap branch also takes the cell from its holder
ffq_enqueue_put_gap_evicts ==
    /\ impl = "orig"
    /\ ppc = "put_gap"
    /\ cells' = [cells EXCEPT ![Idx(local_tail, size)].gap = local_tail,
                              ![Idx(local_tail, size)].rank = EMPTY_CELL]
    /\ skipped' = skipped \cup {local_tail}
    /\ ppc' = "put_tail_gap"
    /\ UNCHANGED <<fixed, win_lock, head, tail, lastItemDequeued, p_i, p_item, local_tail,
                   p_cell_rank, p_pending, p_backoff, cvars, claimed, published, returned>>

\* MPI_Put(local_tail -> cells[idx].gap); flush
ffq_enqueue_put_gap ==
    /\ impl = "orig"
    /\ ppc = "put_gap"
    /\ cells' = [cells EXCEPT ![Idx(local_tail, size)].gap = local_tail]
    /\ skipped' = skipped \cup {local_tail}
    /\ ppc' = "put_tail_gap"
    /\ UNCHANGED <<fixed, win_lock, head, tail, lastItemDequeued, p_i, p_item, local_tail,
                   p_cell_rank, p_pending, p_backoff, cvars, claimed, published, returned>>

\* local_tail++; MPI_Put(local_tail -> tail); flush; MPI_Win_unlock;
\* on success the call returns true and run_producer goes to its next item,
\* otherwise do_work(10) and the loop repeats
ffq_enqueue_put_tail ==
    /\ impl = "orig"
    /\ ppc \in {"put_tail_ok", "put_tail_gap"}
    /\ local_tail' = local_tail + 1
    /\ tail' = local_tail + 1
    /\ win_lock' = "free"
    /\ IF ppc = "put_tail_ok"
         THEN /\ ppc' = "idle"
              /\ p_i' = p_i + 1
         ELSE /\ ppc' = "lock"
              /\ p_i' = p_i
    /\ UNCHANGED <<fixed, cells, head, lastItemDequeued, p_item, p_cell_rank, p_pending,
                   p_backoff, cvars, hist>>

ProducerOrig ==
    \/ ffq_enqueue_call
    \/ ffq_enqueue_lock
    \/ ffq_enqueue_put_data
    \/ ffq_enqueue_put_rank
    \/ ffq_enqueue_put_gap
    \/ ffq_enqueue_put_tail

\* ------------------------------------------------------------ producer, opt
\* the caller of ffq_enqueue_optimized; the call caches tail, backoff_us = 100
ffq_enqueue_optimized_call ==
    /\ impl = "opt"
    /\ ipc[0] = "ready"
    /\ ppc = "idle"
    /\ p_i < NumItems
    /\ p_item' = generate_test_data(p_i + 1)
    /\ local_tail' = tail
    /\ p_backoff' = BACKOFF_START
    /\ ppc' = "lock"
    /\ UNCHANGED <<fixed, win_lock, region, p_i, p_cell_rank, p_pending, cvars, hist>>

\* MPI_Win_lock(EXCLUSIVE); MPI_Get(cell_rank); flush; then the MPI_Put calls of
\* the branch are issued with no flush between them, and local_tail++ runs
\* between the Put of rank (or gap) and the Put of tail
ffq_enqueue_optimized_lock ==
    /\ impl = "opt"
    /\ ppc = "lock"
    /\ local_tail < MaxTail
    /\ WinLockExclusive
    /\ win_lock' = "producer"
    /\ p_cell_rank' = cells[Idx(local_tail, p_local_size)].rank
    /\ IF CellFree(p_cell_rank')
         THEN /\ p_pending' = {"data", "rank", "tail"}
              /\ ppc' = "flush_ok"
         ELSE /\ p_pending' = {"gap", "tail"}
              /\ ppc' = "flush_gap"
    /\ local_tail' = local_tail + 1
    /\ UNCHANGED <<fixed, region, p_i, p_item, p_backoff, cvars, hist>>

\* The origin buffer of the Put of rank and of the Put of gap is &local_tail,
\* which the code increments before the flush: MPI leaves open whether the
\* Put transfers the value it had at the call (r) or the value at completion
\* (r + 1).  r is local_tail - 1 once the Puts are issued.
PutOriginValues(r) == {r, r + 1}

\* one issued MPI_Put completes at the target; MPI orders the Puts of an
\* epoch in no way before the flush
ffq_enqueue_optimized_put(op) ==
    /\ impl = "opt"
    /\ ppc \in {"flush_ok", "flush_gap"}
    /\ op \in p_pending
    /\ p_pending' = p_pending \ {op}
    /\ LET r == local_tail - 1
           idx == Idx(r, p_local_size)
       IN  CASE op = "data" ->
                  /\ cells' = [cells EXCEPT ![idx].data = p_item]
                  /\ UNCHANGED <<tail, published, skipped>>
             [] op = "rank" ->
                  /\ \E v \in PutOriginValues(r) :
                        cells' = [cells EXCEPT ![idx].rank = v]
                  /\ published' = [published EXCEPT ![r] = p_item]
                  /\ UNCHANGED <<tail, skipped>>
             [] op = "gap" ->
                  /\ \E v \in PutOriginValues(r) :
                        cells' = [cells EXCEPT ![idx].gap = v]
                  /\ skipped' = skipped \cup {r}
                  /\ UNCHANGED <<tail, published>>
             [] op = "tail" ->
                  /\ tail' = local_tail
                  /\ UNCHANGED <<cells, published, skipped>>
    /\ UNCHANGED <<fixed, win_lock, head, lastItemDequeued, ppc, p_i, p_item, local_tail,
                   p_cell_rank, p_backoff, cvars, claimed, returned>>

\* MPI_Win_flush returns once every Put is complete; MPI_Win_unlock; on success
\* the call returns true, otherwise usleep(backoff_us), the backoff doubles
ffq_enqueue_optimized_unlock ==
    /\ impl = "opt"
    /\ ppc \in {"flush_ok", "flush_gap"}
    /\ p_pending = {}
    /\ win_lock' = "free"
    /\ IF ppc = "flush_ok"
         THEN /\ ppc' = "idle"
              /\ p_i' = p_i + 1
              /\ p_backoff' = p_backoff
         ELSE /\ ppc' = "lock"
              /\ p_i' = p_i
              /\ p_backoff' = NextBackoff(p_backoff)
    /\ UNCHANGED <<fixed, region, p_item, local_tail, p_cell_rank, p_pending, cvars, hist>>

ProducerOpt ==
    \/ ffq_enqueue_optimized_call
    \/ ffq_enqueue_optimized_lock
    \/ \E op \in {"data", "rank", "gap", "tail"} : ffq_enqueue_optimized_put(op)
    \/ ffq_enqueue_optimized_unlock

\* ------------------------------------------------------------ consumers
\* the locals of a dequeue call go out of scope when it returns
ResetLocals(c) ==
    /\ cell_rank' = [cell_rank EXCEPT ![c] = EMPTY_CELL]
    /\ cell_gap' = [cell_gap EXCEPT ![c] = EMPTY_CELL]
    /\ cell_data' = [cell_data EXCEPT ![c] = NoItem]
    /\ lastItem' = [lastItem EXCEPT ![c] = 0]
    /\ item' = [item EXCEPT ![c] = NoItem]

\* one shared epoch: MPI_Get of rank, gap, data and lastItemDequeued
Snapshot(c) ==
    LET cell == cells[Idx(fetch_rank[c], local_size[c])]
    IN  /\ cell_rank' = [cell_rank EXCEPT ![c] = cell.rank]
        /\ cell_gap' = [cell_gap EXCEPT ![c] = cell.gap]
        /\ cell_data' = [cell_data EXCEPT ![c] = cell.data]
        /\ lastItem' = [lastItem EXCEPT ![c] = lastItemDequeued]

\* faulty variant: the call takes the value of head after the addition
ClaimRank_newvalue(c) ==
    /\ WinLockExclusive
    /\ head < MaxHead - 1
    /\ fetch_rank' = [fetch_rank EXCEPT ![c] = head + 1]
    /\ head' = FetchAndAdd(head)
    /\ claimed' = Append(claimed, head)

\* the exclusive epoch with MPI_Get_accumulate on head
ClaimRank(c) ==
    /\ WinLockExclusive
    /\ head < MaxHead
    /\ fetch_rank' = [fetch_rank EXCEPT ![c] = head]
    /\ head' = FetchAndAdd(head)
    /\ claimed' = Append(claimed, head)

\* faulty variant: the consumer also zeroes the payload of the cell it releases
ReleaseCell_clears(c) ==
    /\ WinLockExclusive
    /\ cells' = [cells EXCEPT ![Idx(fetch_rank[c], local_size[c])].rank = EMPTY_CELL,
                              ![Idx(fetch_rank[c], local_size[c])].data = NoItem]
    /\ lastItemDequeued' = lastItem[c] + 1
    /\ returned' = returned (+) SetToBag({<<fetch_rank[c], item[c]>>})

\* the exclusive epoch that marks the cell empty and stores lastItem + 1;
\* then the call returns true with *item
ReleaseCell(c) ==
    /\ WinLockExclusive
    /\ cells' = [cells EXCEPT ![Idx(fetch_rank[c], local_size[c])].rank = EMPTY_CELL]
    /\ lastItemDequeued' = lastItem[c] + 1
    /\ returned' = returned (+) SetToBag({<<fetch_rank[c], item[c]>>})

\* ---- orig
\* entry of ffq_dequeue: fetch_rank = 0, then the fetch-and-add on head
ffq_dequeue_entry(c) ==
    /\ impl = "orig"
    /\ ipc[c] = "ready"
    /\ ClaimRank(c)
    /\ cpc' = [cpc EXCEPT ![c] = "size"]
    /\ UNCHANGED <<fixed, win_lock, cells, tail, lastItemDequeued, pvars, clocals,
                   published, skipped, returned>>

\* run_file_consumer: while (true) ffq_dequeue(...)
ffq_dequeue_call(c) ==
    /\ cpc[c] = "idle"
    /\ ffq_dequeue_entry(c)

\* the shared epoch that reads queue->size; idx = fetch_rank % local_size
ffq_dequeue_size(c) ==
    /\ impl = "orig"
    /\ cpc[c] = "size"
    /\ WinLockShared
    /\ local_size' = [local_size EXCEPT ![c] = size]
    /\ cpc' = [cpc EXCEPT ![c] = "read"]
    /\ UNCHANGED <<fixed, win_lock, region, pvars, fetch_rank, cell_rank, cell_gap,
                   cell_data, lastItem, item, retry_count, backoff_us, hist>>

\* one loop iteration up to the branch: the reads, then *item = cell_data,
\* or the skip branch, or do_work(10) and the next iteration
ffq_dequeue_read(c) ==
    /\ impl = "orig"
    /\ cpc[c] = "read"
    /\ WinLockShared
    /\ Snapshot(c)
    /\ LET d == Decide(cell_rank'[c], cell_gap'[c], fetch_rank[c])
       IN  /\ cpc' = [cpc EXCEPT ![c] = CASE d = "take" -> "release"
                                          [] d = "skip" -> "skip"
                                          [] OTHER -> "read"]
           /\ item' = [item EXCEPT ![c] = IF d = "take" THEN cell_data'[c] ELSE @]
    /\ UNCHANGED <<fixed, win_lock, region, pvars, fetch_rank, local_size,
                   retry_count, backoff_us, hist>>

\* the take branch after *item = cell_data: the release epoch, success = true,
\* return; the caller goes on at position next
ffq_dequeue_return(c, next) ==
    /\ impl = "orig"
    /\ cpc[c] = "release"
    /\ ReleaseCell(c)
    /\ ResetLocals(c)
    /\ cpc' = [cpc EXCEPT ![c] = next]
    /\ local_size' = [local_size EXCEPT ![c] = 0]
    /\ UNCHANGED <<fixed, win_lock, head, tail, pvars, fetch_rank, retry_count,
                   backoff_us, claimed, published, skipped>>

\* run_file_consumer, run_consumer: the caller prints the item and loops
ffq_dequeue_release(c) == ffq_dequeue_return(c, "idle")

\* faulty variant: the skip branch advances its own rank and leaves head alone
ffq_dequeue_skip_local(c) ==
    /\ impl = "orig"
    /\ cpc[c] = "skip"
    /\ WinLockExclusive
    /\ fetch_rank[c] + 1 < MaxHead
    /\ fetch_rank' = [fetch_rank EXCEPT ![c] = @ + 1]
    /\ cpc' = [cpc EXCEPT ![c] = "read"]
    /\ UNCHANGED <<fixed, win_lock, region, pvars, clocals, hist>>

\* faulty variant: the skip branch marks the cell empty as the take branch does
ffq_dequeue_skip_clears(c) ==
    /\ impl = "orig"
    /\ cpc[c] = "skip"
    /\ ClaimRank(c)
    /\ cells' = [cells EXCEPT ![Idx(fetch_rank[c], local_size[c])].rank = EMPTY_CELL]
    /\ cpc' = [cpc EXCEPT ![c] = "read"]
    /\ UNCHANGED <<fixed, win_lock, tail, lastItemDequeued, pvars, clocals,
                   published, skipped, returned>>

ffq_dequeue_skip(c) ==
    /\ impl = "orig"
    /\ cpc[c] = "skip"
    /\ ClaimRank(c)
    /\ cpc' = [cpc EXCEPT ![c] = "read"]
    /\ UNCHANGED <<fixed, win_lock, cells, tail, lastItemDequeued, pvars, clocals,
                   published, skipped, returned>>

ConsumerOrig(c) ==
    \/ ffq_dequeue_call(c)
    \/ ffq_dequeue_size(c)
    \/ ffq_dequeue_read(c)
    \/ ffq_dequeue_release(c)
    \/ ffq_dequeue_skip(c)

\* ---- opt
ffq_dequeue_optimized_call(c) ==
    /\ impl = "opt"
    /\ ipc[c] = "ready"
    /\ cpc[c] = "idle"
    /\ ClaimRank(c)
    /\ retry_count' = [retry_count EXCEPT ![c] = 0]
    /\ backoff_us' = [backoff_us EXCEPT ![c] = BACKOFF_START]
    /\ cpc' = [cpc EXCEPT ![c] = "read"]
    /\ UNCHANGED <<fixed, win_lock, cells, tail, lastItemDequeued, pvars, local_size,
                   cell_rank, cell_gap, cell_data, lastItem, item,
                   published, skipped, returned>>

\* while (!success && retry_count < cap): retry_count++, the reads, the branch
ffq_dequeue_optimized_poll(c, cap) ==
    /\ impl = "opt"
    /\ cpc[c] = "read"
    /\ retry_count[c] < cap
    /\ WinLockShared
    /\ retry_count' = [retry_count EXCEPT ![c] = @ + 1]
    /\ Snapshot(c)
    /\ LET d == Decide(cell_rank'[c], cell_gap'[c], fetch_rank[c])
       IN  /\ cpc' = [cpc EXCEPT ![c] = CASE d = "take" -> "release"
                                          [] d = "skip" -> "skip"
                                          [] OTHER -> "read"]
           /\ item' = [item EXCEPT ![c] = IF d = "take" THEN cell_data'[c] ELSE @]
           /\ backoff_us' = [backoff_us EXCEPT ![c] =
                                IF d = "wait" THEN NextBackoff(@) ELSE @]
    /\ UNCHANGED <<fixed, win_lock, region, pvars, fetch_rank, local_size, hist>>

\* the loop with const int MAX_RETRIES as its cap
ffq_dequeue_optimized_read(c) == ffq_dequeue_optimized_poll(c, MAX_RETRIES)

ffq_dequeue_optimized_release(c) ==
    /\ impl = "opt"
    /\ cpc[c] = "release"
    /\ ReleaseCell(c)
    /\ ResetLocals(c)
    /\ cpc' = [cpc EXCEPT ![c] = "idle"]
    /\ UNCHANGED <<fixed, win_lock, head, tail, pvars, fetch_rank, local_size,
                   retry_count, backoff_us, claimed, published, skipped>>

\* the skip branch: a new rank, backoff_us = 100
ffq_dequeue_optimized_skip(c) ==
    /\ impl = "opt"
    /\ cpc[c] = "skip"
    /\ ClaimRank(c)
    /\ backoff_us' = [backoff_us EXCEPT ![c] = BACKOFF_START]
    /\ cpc' = [cpc EXCEPT ![c] = "read"]
    /\ UNCHANGED <<fixed, win_lock, cells, tail, lastItemDequeued, pvars, local_size,
                   cell_rank, cell_gap, cell_data, lastItem, item, retry_count,
                   published, skipped, returned>>

\* faulty variant: the loop gives up one iteration early
ffq_dequeue_optimized_timeout_early(c) ==
    /\ impl = "opt"
    /\ cpc[c] = "read"
    /\ retry_count[c] >= MAX_RETRIES - 1
    /\ ResetLocals(c)
    /\ cpc' = [cpc EXCEPT ![c] = "idle"]
    /\ UNCHANGED <<fixed, win_lock, region, pvars, fetch_rank, local_size,
                   retry_count, backoff_us, hist>>

\* the loop ends with success = false: the call returns false
ffq_dequeue_optimized_giveup(c, cap) ==
    /\ impl = "opt"
    /\ cpc[c] = "read"
    /\ retry_count[c] >= cap
    /\ ResetLocals(c)
    /\ cpc' = [cpc EXCEPT ![c] = "idle"]
    /\ UNCHANGED <<fixed, win_lock, region, pvars, fetch_rank, local_size,
                   retry_count, backoff_us, hist>>

ffq_dequeue_optimized_timeout(c) == ffq_dequeue_optimized_giveup(c, MAX_RETRIES)

ConsumerOpt(c) ==
    \/ ffq_dequeue_optimized_call(c)
    \/ ffq_dequeue_optimized_read(c)
    \/ ffq_dequeue_optimized_release(c)
    \/ ffq_dequeue_optimized_skip(c)
    \/ ffq_dequeue_optimized_timeout(c)

\* ------------------------------------------------------------ specifications
Next ==
    \/ ProducerOrig
    \/ ProducerOpt
    \/ \E c \in Consumers : ConsumerOrig(c)
    \/ \E c \in Consumers : ConsumerOpt(c)

Spec == Init /\ [][Next]_vars

InitOrig == Init /\ impl = "orig"

NextOrig ==
    \/ ProducerOrig
    \/ \E c \in Consumers : ConsumerOrig(c)

SpecOrig == InitOrig /\ [][NextOrig]_vars

\* every process keeps running: the producer and each consumer take their next
\* step whenever it stays possible
FairSpecOrig ==
    /\ SpecOrig
    /\ WF_vars(ProducerOrig)
    /\ \A c \in Consumers : WF_vars(ConsumerOrig(c))

\* the producer and one consumer keep running, the other consumers may stop
\* between any two epochs
FairSpecOneConsumer ==
    /\ SpecOrig
    /\ WF_vars(ProducerOrig)
    /\ WF_vars(ConsumerOrig(1))

InitOpt == Init /\ impl = "opt"

NextOpt ==
    \/ ProducerOpt
    \/ \E c \in Consumers : ConsumerOpt(c)

SpecOpt == InitOpt /\ [][NextOpt]_vars

\* the same for the handle-based build
FairSpecOpt ==
    /\ SpecOpt
    /\ WF_vars(ProducerOpt)
    /\ \A c \in Consumers : WF_vars(ConsumerOpt(c))

\* ---- the handle-based build with a retry cap that lets the backoff grow to
\* MAX_BACKOFF (the code's cap is 1000), one consumer
ConsumerBackoff(c) ==
    \/ ffq_dequeue_optimized_call(c)
    \/ ffq_dequeue_optimized_poll(c, BackoffPolls)
    \/ ffq_dequeue_optimized_release(c)
    \/ ffq_dequeue_optimized_skip(c)
    \/ ffq_dequeue_optimized_giveup(c, BackoffPolls)

NextBackoffStudy ==
    \/ ProducerOpt
    \/ ConsumerBackoff(1)

SpecBackoff == InitOpt /\ [][NextBackoffStudy]_vars

\* ---- construction: main up to the return of ffq_init / ffq_init_optimized
\* values --queue-size may carry: too small ones, and the size of the model
QueueSizeArgs == ((-1)..1) \cup {QSize}

\* what memory nobody has written may hold
Uninitialized == {0, 1}

\* every process at the start of main; the window memory is not initialised
InitConstruct ==
    /\ impl \in {"orig", "opt"}
    /\ queue_size \in QueueSizeArgs
    /\ ipc = [p \in Procs |-> "start"]
    /\ abort_code = <<>>
    /\ size \in {1, QSize}
    /\ p_local_size = 0
    /\ \E r \in [Slots -> Uninitialized], g \in [Slots -> Uninitialized] :
          cells = [i \in Slots |-> [rank |-> r[i], gap |-> g[i], data |-> NoItem]]
    /\ head \in Uninitialized
    /\ tail \in Uninitialized
    /\ lastItemDequeued \in Uninitialized
    /\ local_size = [c \in Consumers |-> 0]
    /\ InitLocals
    /\ InitGateway

\* faulty variant: a queue of one cell is let through
parse_args_min1(p) ==
    /\ ipc[p] = "start"
    /\ IF queue_size < 1
         THEN /\ ipc' = [ipc EXCEPT ![p] = "aborted"]
              /\ abort_code' = <<1>>
         ELSE /\ ipc' = [ipc EXCEPT ![p] = "parsed"]
              /\ abort_code' = abort_code
    /\ UNCHANGED <<gateway, impl, queue_size, size, p_local_size, win_lock, region, pvars, cvars, hist>>

\* parse_args: if (config->queue_size < 2) MPI_Abort(MPI_COMM_WORLD, 1)
parse_args(p) ==
    /\ ipc[p] = "start"
    /\ IF queue_size < 2
         THEN /\ ipc' = [ipc EXCEPT ![p] = "aborted"]
              /\ abort_code' = <<1>>
         ELSE /\ ipc' = [ipc EXCEPT ![p] = "parsed"]
              /\ abort_code' = abort_code
    /\ UNCHANGED <<gateway, impl, queue_size, size, p_local_size, win_lock, region, pvars, cvars, hist>>

\* MPI_Abort ends every process of the communicator, wherever it is
mpi_abort_ends(p) ==
    /\ abort_code # <<>>
    /\ ipc[p] # "aborted"
    /\ ipc' = [ipc EXCEPT ![p] = "aborted"]
    /\ UNCHANGED <<gateway, impl, queue_size, abort_code, size, p_local_size, win_lock, region,
                   pvars, cvars, hist>>

\* faulty variant: rank 0 leaves queue->size as the memory came
ffq_init_owner_nosize ==
    /\ ipc[0] = "parsed"
    /\ cells' = EmptyCells(queue_size)
    /\ head' = 0
    /\ tail' = 0
    /\ lastItemDequeued' = 0
    /\ ipc' = [ipc EXCEPT ![0] = "barrier"]
    /\ UNCHANGED <<gateway, impl, queue_size, abort_code, size, p_local_size, win_lock, pvars,
                   cvars, hist>>

\* rank 0: MPI_Win_allocate, queue->size = size, head = tail = lastItemDequeued
\* = 0, every cell EMPTY_CELL / EMPTY_CELL / zeroed; then it enters MPI_Barrier
ffq_init_owner ==
    /\ ipc[0] = "parsed"
    /\ size' = queue_size
    /\ cells' = EmptyCells(queue_size)
    /\ head' = 0
    /\ tail' = 0
    /\ lastItemDequeued' = 0
    /\ ipc' = [ipc EXCEPT ![0] = "barrier"]
    /\ UNCHANGED <<gateway, impl, queue_size, abort_code, p_local_size, win_lock, pvars, cvars, hist>>

\* the other ranks: MPI_Win_allocate(0, ...), then they enter MPI_Barrier
ffq_init_peer(c) ==
    /\ ipc[c] = "parsed"
    /\ ipc' = [ipc EXCEPT ![c] = "barrier"]
    /\ UNCHANGED <<gateway, impl, queue_size, abort_code, size, p_local_size, win_lock, region,
                   pvars, cvars, hist>>

\* every process has entered MPI_Barrier: the barrier is crossed, each process
\* is free to return from it
BarrierCrossed == \A q \in Procs : ipc[q] \in {"barrier", "cache", "ready"}

\* what follows MPI_Barrier: ffq_init returns; ffq_init_optimized fills the
\* handle, on rank 0 with handle->local_size = size
AfterBarrier(p) ==
    IF impl = "orig"
      THEN /\ ipc' = [ipc EXCEPT ![p] = "ready"]
           /\ p_local_size' = p_local_size
      ELSE IF p = 0
             THEN /\ ipc' = [ipc EXCEPT ![p] = "ready"]
                  /\ p_local_size' = queue_size
             ELSE /\ ipc' = [ipc EXCEPT ![p] = "cache"]
                  /\ p_local_size' = p_local_size

\* faulty variant: MPI_Barrier is missing
ffq_init_barrier_missing(p) ==
    /\ ipc[p] = "barrier"
    /\ AfterBarrier(p)
    /\ UNCHANGED <<gateway, impl, queue_size, abort_code, size, win_lock, region, pvars, cvars, hist>>

\* MPI_Barrier(comm) returns at a process once every process has entered it
ffq_init_barrier(p) ==
    /\ ipc[p] = "barrier"
    /\ BarrierCrossed
    /\ AfterBarrier(p)
    /\ UNCHANGED <<gateway, impl, queue_size, abort_code, size, win_lock, region, pvars, cvars, hist>>

\* ffq_init_optimized on the other ranks: the shared epoch with
\* MPI_Get(&handle->local_size <- queue->size), then the handle is returned
ffq_init_optimized_cache(c) ==
    /\ impl = "opt"
    /\ ipc[c] = "cache"
    /\ WinLockShared
    /\ local_size' = [local_size EXCEPT ![c] = size]
    /\ ipc' = [ipc EXCEPT ![c] = "ready"]
    /\ UNCHANGED <<gateway, impl, queue_size, abort_code, size, p_local_size, win_lock, region,
                   pvars, cpc, fetch_rank, cell_rank, cell_gap, cell_data, lastItem,
                   item, retry_count, backoff_us, hist>>

Construct ==
    \/ \E p \in Procs : parse_args(p)
    \/ \E p \in Procs : mpi_abort_ends(p)
    \/ ffq_init_owner
    \/ \E c \in Consumers : ffq_init_peer(c)
    \/ \E p \in Procs : ffq_init_barrier(p)
    \/ \E c \in Consumers : ffq_init_optimized_cache(c)

\* the whole program: construction, then the producer and the consumers
NextConstruct ==
    \/ Construct
    \/ Next

SpecConstruct == InitConstruct /\ [][NextConstruct]_vars

\* ---- the gateway: the listener thread and gateway_get_next
\* what the queue operations own
queue_state == <<impl, queue_size, ipc, abort_code, size, p_local_size, win_lock, region,
                 pvars, cvars, hist>>

\* faulty variant: the buffer never counts as full
BufferFull_never(t, h) == FALSE

\* the test of the listener: (buffer_tail + 1) % MAX_QUEUE_ITEMS == buffer_head
BufferFull(t, h) == (t + 1) % MAX_QUEUE_ITEMS = h

\* generate_synthetic_data: item.id = next_id++, then pthread_mutex_lock
generate_synthetic_data_lock ==
    /\ lpc = "generate"
    /\ next_id <= GatewayItems
    /\ buffer_mutex = "free"
    /\ buffer_mutex' = "listener"
    /\ l_item' = next_id
    /\ next_id' = next_id + 1
    /\ lpc' = "store"
    /\ UNCHANGED <<queue_state, data_buffer, buffer_head, buffer_tail, gpc, g_item,
                   g_result, stored, got>>

\* the critical section of the listener: the item is stored at buffer_tail
\* unless the buffer is full; pthread_mutex_unlock
generate_synthetic_data_store ==
    /\ lpc = "store"
    /\ IF BufferFull(buffer_tail, buffer_head)
         THEN UNCHANGED <<data_buffer, buffer_tail, stored>>
         ELSE /\ data_buffer' = [data_buffer EXCEPT ![buffer_tail] = l_item]
              /\ buffer_tail' = (buffer_tail + 1) % MAX_QUEUE_ITEMS
              /\ stored' = Append(stored, l_item)
    /\ buffer_mutex' = "free"
    /\ lpc' = "generate"
    /\ UNCHANGED <<queue_state, buffer_head, next_id, l_item, gpc, g_item, g_result, got>>

\* gateway_get_next: bool result = false; pthread_mutex_lock
gateway_get_next_lock ==
    /\ gpc = "call"
    /\ buffer_mutex = "free"
    /\ buffer_mutex' = "producer"
    /\ g_result' = FALSE
    /\ gpc' = "copy"
    /\ UNCHANGED <<queue_state, data_buffer, buffer_head, buffer_tail, next_id, lpc,
                   l_item, g_item, stored, got>>

\* the critical section of gateway_get_next: if the buffer is not empty the
\* item at buffer_head is copied out; pthread_mutex_unlock; return result
gateway_get_next_copy ==
    /\ gpc = "copy"
    /\ IF buffer_head # buffer_tail
         THEN /\ g_item' = data_buffer[buffer_head]
              /\ buffer_head' = (buffer_head + 1) % MAX_QUEUE_ITEMS
              /\ g_result' = TRUE
              /\ got' = Append(got, data_buffer[buffer_head])
         ELSE UNCHANGED <<g_item, buffer_head, g_result, got>>
    /\ buffer_mutex' = "free"
    /\ gpc' = "call"
    /\ UNCHANGED <<queue_state, data_buffer, buffer_tail, next_id, lpc, l_item, stored>>

NextGateway ==
    \/ generate_synthetic_data_lock
    \/ generate_synthetic_data_store
    \/ gateway_get_next_lock
    \/ gateway_get_next_copy

SpecGateway == InitOrig /\ [][NextGateway]_vars

\* ---- test mode: run_producer and run_consumer
\* faulty variant: the stop test lets one more call through
run_consumer_check_late(c) ==
    /\ impl = "orig"
    /\ ipc[c] = "ready"
    /\ cpc[c] = "idle"
    /\ WinLockShared
    /\ lastItem' = [lastItem EXCEPT ![c] = lastItemDequeued]
    /\ cpc' = [cpc EXCEPT ![c] = IF lastItem'[c] > NumItems THEN "finished" ELSE "call"]
    /\ UNCHANGED <<fixed, win_lock, region, pvars, fetch_rank, local_size, cell_rank,
                   cell_gap, cell_data, item, retry_count, backoff_us, hist>>

\* faulty variant: the read of the counter counts itself
run_consumer_check_counts(c) ==
    /\ impl = "orig"
    /\ ipc[c] = "ready"
    /\ cpc[c] = "idle"
    /\ WinLockShared
    /\ lastItem' = [lastItem EXCEPT ![c] = lastItemDequeued]
    /\ lastItemDequeued' = lastItemDequeued + 1
    /\ cpc' = [cpc EXCEPT ![c] = IF lastItem'[c] >= NumItems THEN "finished" ELSE "call"]
    /\ UNCHANGED <<fixed, win_lock, cells, head, tail, pvars, fetch_rank, local_size,
                   cell_rank, cell_gap, cell_data, item, retry_count, backoff_us, hist>>

\* run_consumer: int lastItem = 0 and the shared epoch that reads
\* lastItemDequeued into it; if (lastItem >= num_items) break
run_consumer_check(c) ==
    /\ impl = "orig"
    /\ ipc[c] = "ready"
    /\ cpc[c] = "idle"
    /\ WinLockShared
    /\ lastItem' = [lastItem EXCEPT ![c] = lastItemDequeued]
    /\ cpc' = [cpc EXCEPT ![c] = IF lastItem'[c] >= NumItems THEN "finished" ELSE "call"]
    /\ UNCHANGED <<fixed, win_lock, region, pvars, fetch_rank, local_size, cell_rank,
                   cell_gap, cell_data, item, retry_count, backoff_us, hist>>

\* run_consumer: ffq_dequeue(queue, consumer_id, &item, win)
run_consumer_dequeue(c) ==
    /\ cpc[c] = "call"
    /\ ffq_dequeue_entry(c)

\* the test of one consumer: run_producer on rank 0, run_consumer on rank 1
NextTestSingle ==
    \/ ProducerOrig
    \/ run_consumer_check(1)
    \/ run_consumer_dequeue(1)
    \/ ffq_dequeue_size(1)
    \/ ffq_dequeue_read(1)
    \/ ffq_dequeue_release(1)
    \/ ffq_dequeue_skip(1)

SpecTestSingle == InitOrig /\ [][NextTestSingle]_vars

\* one loop iteration of run_consumer and the steps of its ffq_dequeue call
ConsumerTest(c) ==
    \/ run_consumer_check(c)
    \/ run_consumer_dequeue(c)
    \/ ffq_dequeue_size(c)
    \/ ffq_dequeue_read(c)
    \/ ffq_dequeue_release(c)
    \/ ffq_dequeue_skip(c)

\* the test: run_producer on rank 0, run_consumer on every other rank
NextTest ==
    \/ ProducerOrig
    \/ \E c \in Consumers : ConsumerTest(c)

SpecTest == InitOrig /\ [][NextTest]_vars

\* every MPI process keeps running
FairSpecTest ==
    /\ SpecTest
    /\ WF_vars(ProducerOrig)
    /\ \A c \in Consumers : WF_vars(ConsumerTest(c))

\* ---- benchmark mode: run_benchmark_producer and run_benchmark_consumer
\* create_sentinel_item(): the payload with aqi = -1 and the SENTINEL_CITY name
create_sentinel_item == -1

\* faulty variant: every valid item counts as the sentinel
is_sentinel_item_any(it) == it # NoItem

\* is_sentinel_item(item): valid and city = SENTINEL_CITY
is_sentinel_item(it) == it = create_sentinel_item

\* enqueue calls of run_benchmark_producer: the items, then one sentinel for
\* each consumer
BenchmarkCalls == BENCHMARK_ITEMS + NumConsumers

\* for (i = 1; i <= BENCHMARK_ITEMS; i++) ffq_enqueue(data of item i);
\* for (i = 0; i < num_consumers; i++) ffq_enqueue(sentinel)
run_benchmark_producer_call ==
    /\ p_i < BenchmarkCalls
    /\ ffq_enqueue_entry(IF p_i < BENCHMARK_ITEMS THEN p_i + 1 ELSE create_sentinel_item)

\* "Signal that producer is done": the exclusive epoch that stores
\* stats->items_processed into lastItemDequeued
run_benchmark_producer_done ==
    /\ impl = "orig"
    /\ ppc = "idle"
    /\ p_i = BenchmarkCalls
    /\ WinLockExclusive
    /\ lastItemDequeued' = BENCHMARK_ITEMS
    /\ ppc' = "done"
    /\ UNCHANGED <<fixed, win_lock, cells, head, tail, p_i, p_item, local_tail,
                   p_cell_rank, p_pending, p_backoff, cvars, hist>>

ProducerBenchmark ==
    \/ run_benchmark_producer_call
    \/ ffq_enqueue_lock
    \/ ffq_enqueue_put_data
    \/ ffq_enqueue_put_rank
    \/ ffq_enqueue_put_gap
    \/ ffq_enqueue_put_tail
    \/ run_benchmark_producer_done

\* ffq_dequeue returned true: if (is_sentinel_item(&item)) found_sentinel = true,
\* break; otherwise items_processed++ and the loop goes on
run_benchmark_consumer_dequeued(c) ==
    ffq_dequeue_return(c, IF is_sentinel_item(item[c]) THEN "finished" ELSE "idle")

\* while (!found_sentinel) ffq_dequeue(...)
ConsumerBenchmark(c) ==
    \/ ffq_dequeue_call(c)
    \/ ffq_dequeue_size(c)
    \/ ffq_dequeue_read(c)
    \/ ffq_dequeue_skip(c)
    \/ run_benchmark_consumer_dequeued(c)

NextBenchmark ==
    \/ ProducerBenchmark
    \/ \E c \in Consumers : ConsumerBenchmark(c)

SpecBenchmark == InitOrig /\ [][NextBenchmark]_vars

\* every process of the benchmark keeps running
FairSpecBenchmark ==
    /\ SpecBenchmark
    /\ WF_vars(ProducerBenchmark)
    /\ \A c \in Consumers : WF_vars(ConsumerBenchmark(c))

\* ---- the producer and exactly one consumer (MPI rank 1)
NextSingle ==
    \/ ProducerOrig
    \/ ConsumerOrig(1)

SpecSingle == InitOrig /\ [][NextSingle]_vars

\* ---- one enqueue, then one dequeue, on the freshly initialised queue
\* the caller passes any payload to the first ffq_enqueue
round_trip_enqueue ==
    /\ p_i = 0
    /\ \E p \in Payloads : ffq_enqueue_entry(p)

\* one consumer calls ffq_dequeue once the enqueue has returned
round_trip_dequeue(c) ==
    /\ p_i = 1
    /\ ppc = "idle"
    /\ head = 0
    /\ ffq_dequeue_call(c)

NextRoundTrip ==
    \/ round_trip_enqueue
    \/ ffq_enqueue_lock
    \/ ffq_enqueue_put_data
    \/ ffq_enqueue_put_rank
    \/ ffq_enqueue_put_tail
    \/ \E c \in Consumers : round_trip_dequeue(c)
    \/ \E c \in Consumers : ffq_dequeue_size(c)
    \/ \E c \in Consumers : ffq_dequeue_read(c)
    \/ \E c \in Consumers : ffq_dequeue_release(c)

SpecRoundTrip == InitOrig /\ [][NextRoundTrip]_vars

\* ------------------------------------------------------------ observations
\* number of dequeue calls that returned <<r, it>> for some item it <= n
RECURSIVE RankCopies(_, _)
RankCopies(r, n) ==
    IF n < 0 THEN 0 ELSE CopiesIn(<<r, n>>, returned) + RankCopies(r, n - 1)

\* number of dequeue calls that returned a payload for rank r
Deliveries(r) == RankCopies(r, NumItems)

\* number of dequeue calls that returned item it for some rank <= n
RECURSIVE ItemCopies(_, _)
ItemCopies(it, n) ==
    IF n < 0 THEN 0 ELSE CopiesIn(<<n, it>>, returned) + ItemCopies(it, n - 1)

\* number of dequeue calls that returned item it
ItemDeliveries(it) == ItemCopies(it, MaxHead)

\* consumer c is inside a dequeue call
InFlight(c) == cpc[c] # "idle"

\* ------------------------------------------------------------ C1
\* C1: no duplicate delivery.  For every rank r at most one dequeue call has
\* returned a payload for r, and the payload published at a rank (each item is
\* published at one rank) has been returned by at most one dequeue call.
NoDuplicateDelivery ==
    /\ \A r \in 0..MaxHead : Deliveries(r) <= 1
    /\ \A it \in Items : ItemDeliveries(it) <= 1

\* every item has been delivered, by both implementations' kind of run: some
\* rank was a gap and the ring wrapped
C1_Witness ==
    /\ BagCardinality(returned) = NumItems
    /\ skipped # {}
    /\ \E e \in BagToSet(returned) : e[1] >= QSize

\* ------------------------------------------------------------ C2
\* C2: unique rank claims.  The values obtained from the fetch-and-add on head
\* are 0, 1, 2, ... in this order (so pairwise distinct and dense), and no two
\* dequeue calls in flight hold the same rank.
UniqueRankClaims ==
    /\ claimed = [k \in 1..head |-> k - 1]
    /\ \A c1, c2 \in Consumers :
          (c1 # c2 /\ InFlight(c1) /\ InFlight(c2)) => fetch_rank[c1] # fetch_rank[c2]

\* every consumer is in flight, one of them holds a rank it re-claimed after a gap
C2_Witness ==
    /\ \A c \in Consumers : InFlight(c)
    /\ \E c \in Consumers : cpc[c] = "read" /\ fetch_rank[c] > 0
                            /\ (fetch_rank[c] - 1) \in skipped
    /\ Len(claimed) > NumConsumers

\* ------------------------------------------------------------ C3
\* C3: no unannounced loss.  Every rank r below tail is either published (its
\* item is recorded, it is no gap, and it sits in cell r mod N with rank r
\* exactly as long as no dequeue has returned it, which then happens once) or
\* covered by a gap (cell r mod N has gap >= r, the rank was never published,
\* no dequeue returned a payload for it, and a consumer that holds r and reads
\* the cell takes the skip branch).
NoUnannouncedLoss ==
    \A r \in Ranks :
       r < tail =>
          LET cell == cells[Idx(r, QSize)]
          IN  \/ /\ published[r] # NoItem
                 /\ r \notin skipped
                 /\ Deliveries(r) = (IF cell.rank = r THEN 0 ELSE 1)
              \/ /\ published[r] = NoItem
                 /\ r \in skipped
                 /\ cell.gap >= r
                 /\ Deliveries(r) = 0
                 /\ \A c \in Consumers :
                       (cpc[c] = "read" /\ fetch_rank[c] = r)
                          => Decide(cell.rank, cell.gap, r) = "skip"

\* the producer is past a delivered rank and past a gap that a consumer holds
C3_Witness ==
    /\ \E r \in Ranks : r < tail /\ Deliveries(r) = 1
    /\ \E c \in Consumers : cpc[c] = "read" /\ fetch_rank[c] \in skipped
                            /\ fetch_rank[c] < tail

\* ------------------------------------------------------------ C4
\* C4: payload visibility.  A consumer that has read rank = r for the rank r it
\* holds has read the item the producer wrote when publishing r, and every
\* payload a dequeue call returned for rank r is that item.
PayloadVisibility ==
    /\ \A c \in Consumers :
          cpc[c] = "release" =>
             /\ item[c] # NoItem
             /\ item[c] = published[fetch_rank[c]]
    /\ \A e \in BagToSet(returned) :
          /\ e[2] # NoItem
          /\ e[2] = published[e[1]]

\* the handle-based dequeue returned a payload from a cell that held an older
\* item before (the ring wrapped)
C4_Witness ==
    /\ impl = "opt"
    /\ \E e \in BagToSet(returned) : e[1] >= QSize

\* ------------------------------------------------------------ C5
\* every item has been returned by exactly one dequeue call, and nothing else
\* has been returned
AllDelivered ==
    /\ BagCardinality(returned) = NumItems
    /\ \A it \in Items : ItemDeliveries(it) = 1

\* C5: once the producer has enqueued its NumItems payloads, fair scheduling
\* of the consumers leads to a state from which on exactly NumItems dequeue
\* calls have returned a payload, each enqueued item exactly once.
EventuallyDeliveredOnce == (p_i = NumItems) ~> [](AllDelivered)

\* all items delivered in a run in which the producer wrote a gap
C5_Witness ==
    /\ p_i = NumItems
    /\ AllDelivered
    /\ skipped # {}

\* ------------------------------------------------------------ C6
\* a rank recorded as a gap has no published item and sits in no cell
GapNeverPublished ==
    /\ \A r \in skipped : published[r] = NoItem
    /\ \A i \in Slots : cells[i].rank \notin skipped

\* a loop iteration of consumer c that read gap >= r and rank # r for its rank r
\* goes to the skip branch and returns nothing; it stays in the loop only if it
\* read neither rank = r nor gap >= r
GapObserved(c) ==
    LET r == fetch_rank[c]
        sawgap == cell_gap'[c] >= r /\ cell_rank'[c] # r
    IN  /\ (cpc[c] = "read" /\ cpc'[c] # "read")
            => /\ cell_rank'[c] = cells[Idx(r, QSize)].rank
               /\ cell_gap'[c] = cells[Idx(r, QSize)].gap
               /\ (cpc'[c] = "skip") = sawgap
               /\ returned' = returned
        /\ (cpc[c] = "read" /\ cpc'[c] = "read"
              /\ <<cell_rank[c], cell_gap[c]>>' # <<cell_rank[c], cell_gap[c]>>)
            => ~sawgap

\* the skip branch is one more fetch-and-add on head; the call returns nothing
\* and goes back to evaluate the cell of the new rank
SkipReclaims(c) ==
    (cpc[c] = "skip" /\ cpc'[c] # "skip")
        => /\ head' = head + 1
           /\ fetch_rank'[c] = head
           /\ cpc'[c] = "read"
           /\ returned' = returned

\* C6: a rank that the producer recorded as a gap is never published later,
\* and a consumer whose rank r finds gap >= r and rank # r returns no payload
\* for r: it does one more fetch-and-add on head and re-evaluates.
GapIsSkipped ==
    /\ []GapNeverPublished
    /\ [][\A c \in Consumers : GapObserved(c) /\ SkipReclaims(c)]_vars

\* a consumer has read the gap for the rank it holds and is about to re-claim
C6_Witness ==
    \E c \in Consumers : cpc[c] = "skip" /\ fetch_rank[c] \in skipped

\* ------------------------------------------------------------ C7
\* the producer took a step
ProducerMoved == <<ppc, p_pending>>' # <<ppc, p_pending>>

\* C7: cell state machine.  A cell's rank changes only from EMPTY to the rank
\* the producer is publishing (a rank of that slot), or from r to EMPTY by the
\* consumer that holds r; the producer writes a payload or a rank only into a
\* cell whose rank is EMPTY.
CellStateMachine ==
    [][\A i \in Slots :
          LET old == cells[i].rank
              new == cells'[i].rank
          IN  /\ new # old =>
                    \/ /\ old = EMPTY_CELL
                       /\ ProducerMoved
                       /\ new = local_tail
                       /\ Idx(new, QSize) = i
                    \/ /\ old >= 0
                       /\ new = EMPTY_CELL
                       /\ \E c \in Consumers :
                             /\ cpc[c] = "release"
                             /\ cpc'[c] = "idle"
                             /\ fetch_rank[c] = old
              /\ cells'[i].data # cells[i].data => (old = EMPTY_CELL /\ ProducerMoved)
      ]_vars

\* a cell holds its second rank: it was published, released and published again
C7_Witness ==
    \E i \in Slots : cells[i].rank >= QSize

\* ------------------------------------------------------------ C8
\* C8: monotonic head.  Every change of head is an increase by exactly 1, made
\* by the fetch-and-add of a consumer that starts a dequeue call or takes the
\* skip branch and obtains the old value; no step of the producer changes head.
MonotonicHead ==
    [][/\ head' # head =>
            /\ head' = head + 1
            /\ ~ProducerMoved
            /\ \E c \in Consumers :
                  /\ cpc[c] \in {"idle", "skip"}
                  /\ cpc'[c] # cpc[c]
                  /\ fetch_rank'[c] = head
       /\ ProducerMoved => head' = head
      ]_vars

\* head has been advanced by first claims and by a re-claim after a gap
C8_Witness ==
    /\ head > NumConsumers
    /\ \E c \in Consumers : cpc[c] = "read" /\ fetch_rank[c] > 0
                            /\ (fetch_rank[c] - 1) \in skipped
                            /\ fetch_rank[c] = head - 1

\* ------------------------------------------------------------ C9
\* C9: monotonic gap.  No step lowers the gap of a cell: every gap write stores
\* a value greater than or equal to the gap the cell had.
MonotonicGap ==
    [][\A i \in Slots : cells'[i].gap >= cells[i].gap]_vars

\* the producer has written the gap of one cell twice
C9_Witness ==
    \E r1, r2 \in skipped :
       /\ r1 < r2
       /\ Idx(r1, QSize) = Idx(r2, QSize)
       /\ cells[Idx(r2, QSize)].gap >= r2

\* ------------------------------------------------------------ C10
\* any step of the producer
ProducerStep == ProducerOrig \/ ProducerOpt

\* the producer has work left: an item to enqueue, or a call in progress that
\* has not reached the last rank of the model
ProducerHasWork ==
    /\ (ppc = "idle" => p_i < NumItems)
    /\ (ppc = "lock" => local_tail < MaxTail)

\* outside the producer's epoch every rank below tail has been handled by
\* exactly one of publish and gap write, and no rank from tail on by either
OnePerRank ==
    win_lock = "free" =>
       \A r \in Ranks :
          IF r < tail
            THEN (published[r] # NoItem) # (r \in skipped)
            ELSE published[r] = NoItem /\ r \notin skipped

\* a publish happens in an iteration that read an EMPTY rank, a gap write in
\* one that read a rank in use; tail changes only by the producer's + 1 that
\* ends the iteration
IterationStep ==
    /\ published' # published => CellFree(p_cell_rank)
    /\ skipped' # skipped => ~CellFree(p_cell_rank)
    /\ tail' # tail => (tail' = tail + 1 /\ ProducerMoved /\ tail' = local_tail')

\* C10: the producer never waits on consumers.  Whatever the cells hold and
\* wherever head is, the producer's next step is possible as long as it has
\* work left; every loop iteration does exactly one of publish (rank read
\* EMPTY) and gap write (rank read in use) and then adds exactly 1 to tail.
ProducerNeverWaits ==
    /\ [](ProducerHasWork => ENABLED ProducerStep)
    /\ []OnePerRank
    /\ [][IterationStep]_vars

\* the producer has run through the whole ring and on, writing gaps, while no
\* consumer has claimed anything
C10_Witness ==
    /\ head = 0
    /\ tail > QSize
    /\ ppc = "lock"
    /\ local_tail < MaxTail

\* ------------------------------------------------------------ C11
\* some cell is free for the producer
RingHasRoom == \E i \in Slots : CellFree(cells[i].rank)

\* the only way out of an enqueue call is the return of true, after the item of
\* the call has been published at the last rank the call processed
EnqueueReturnsTrue ==
    (ppc # "idle" /\ ppc' = "idle")
        => /\ p_i' = p_i + 1
           /\ published'[local_tail' - 1] = p_item

\* C11: enqueue completes under consumer progress.  With the producer and every
\* consumer scheduled fairly, an enqueue call in progress returns, and it
\* returns true; in a run that reaches the last rank of the model first, a
\* cell becomes free for the call (a free cell stays free until the producer
\* fills it, within QSize iterations).
EnqueueCompletes ==
    /\ (ppc # "idle") ~> (ppc = "idle" \/ (local_tail = MaxTail /\ RingHasRoom))
    /\ [][EnqueueReturnsTrue]_vars

\* ------------------------------------------------------------ C12
\* no consumer has taken a step: the first step of every dequeue call adds 1
\* to head, and head never goes down
NoConsumerStep == head = 0 /\ claimed = <<>>

\* C12: a full ring blocks the producer.  As long as no consumer has taken a
\* step, at most QSize enqueue calls have returned; every iteration that call
\* number QSize + 1 has completed wrote a gap (between two of its epochs the
\* ranks QSize .. tail - 1 are gaps, and it never publishes), and the call
\* always has a next step, up to the last rank of the model.
FullRingBlocks ==
    NoConsumerStep =>
       /\ p_i <= QSize
       /\ (p_i = QSize /\ ppc # "idle") =>
             /\ win_lock = "free" =>
                   \A r \in Ranks : (QSize <= r /\ r < tail) => r \in skipped
             /\ \A r \in Ranks : r >= QSize => published[r] = NoItem
             /\ (ppc = "lock" /\ win_lock = "free") => tail = local_tail
             /\ ENABLED ProducerStep \/ (ppc = "lock" /\ local_tail = MaxTail)

\* call number QSize + 1 has written two gaps and goes on, no consumer has moved
C12_Witness ==
    /\ NoConsumerStep
    /\ p_i = QSize
    /\ ppc = "lock"
    /\ Cardinality(skipped) >= 2
    /\ tail = QSize + 2

\* ------------------------------------------------------------ C13
\* cell k holds payload number k + 1 with rank k
CellFilled(k) ==
    /\ cells[k].rank = k
    /\ cells[k].data = generate_test_data(k + 1)

\* C13: filling the ring.  As long as no consumer has taken a step, ranks
\* 0 .. QSize - 1 are never gaps, and when n <= QSize enqueue calls have
\* returned, tail = n (one loop iteration per call) and cell k holds payload k
\* with rank k for every k < n; no gap is written by the first QSize calls,
\* and the cells of the full ring keep their rank and payload.
FillsTheRing ==
    NoConsumerStep =>
       /\ \A r \in Ranks : r < QSize => r \notin skipped
       /\ ppc = "idle" => tail = p_i
       /\ \A k \in Slots : k < p_i => CellFilled(k)
       /\ (p_i < QSize \/ ppc = "idle") =>
             (skipped = {} /\ \A k \in Slots : cells[k].gap = EMPTY_CELL)
       /\ \A k \in Slots : (k >= p_i /\ win_lock = "free") =>
              cells[k] = [rank |-> EMPTY_CELL, gap |-> EMPTY_CELL, data |-> NoItem]

\* the ring is full after QSize calls, no consumer has moved
C13_Witness ==
    /\ NoConsumerStep
    /\ ppc = "idle"
    /\ p_i = QSize
    /\ tail = QSize
    /\ \A k \in Slots : CellFilled(k) /\ cells[k].gap = EMPTY_CELL

\* ------------------------------------------------------------ C14
\* the enqueue and the dequeue of the round trip have both returned
RoundTripDone ==
    /\ p_i = 1
    /\ head = 1
    /\ ppc = "idle"
    /\ \A c \in Consumers : cpc[c] = "idle"

\* C14: round trip.  On a freshly initialised queue, one enqueue of any
\* payload p followed by one dequeue: the enqueue takes the publish branch, the
\* dequeue finds rank 0 at its first read (it neither waits nor skips), copies
\* p, and returns exactly p; nothing stops before both calls have returned.
RoundTrip ==
    /\ ppc \notin {"put_gap", "put_tail_gap"}
    /\ \A c \in Consumers :
          /\ cpc[c] # "skip"
          /\ cpc[c] = "read" =>
                Decide(cells[Idx(fetch_rank[c], QSize)].rank,
                       cells[Idx(fetch_rank[c], QSize)].gap, fetch_rank[c]) = "take"
          /\ cpc[c] = "release" => (item[c] = p_item /\ fetch_rank[c] = 0)
    /\ BagCardinality(returned) <= 1
    /\ RoundTripDone => (p_item \in Payloads /\ returned = SetToBag({<<0, p_item>>}))
    /\ RoundTripDone \/ ENABLED NextRoundTrip

\* the round trip of the largest payload is complete
C14_Witness ==
    /\ RoundTripDone
    /\ returned = SetToBag({<<0, NumPayloads>>})
    /\ lastItemDequeued = 1

\* ------------------------------------------------------------ C15
\* dequeue calls that have copied or returned a payload
PayloadsTaken ==
    BagCardinality(returned) + Cardinality({c \in Consumers : cpc[c] = "release"})

\* a payload is taken for rank r only once the producer has published r and
\* moved tail past it; no more payloads are taken than enqueue calls returned
TakenAfterPublish ==
    /\ \A c \in Consumers :
          cpc[c] = "release" =>
             /\ fetch_rank[c] < tail
             /\ item[c] # NoItem
             /\ item[c] = published[fetch_rank[c]]
    /\ \A e \in BagToSet(returned) :
          e[1] < tail /\ e[2] # NoItem /\ e[2] = published[e[1]]
    /\ PayloadsTaken <= p_i

\* a step that finds consumer c in its loop with a rank the producer has not
\* processed leaves c in the loop with the same rank, and returns nothing
WaitsForProducer(c) ==
    (cpc[c] = "read" /\ fetch_rank[c] >= tail)
        => /\ cpc'[c] = "read"
           /\ fetch_rank'[c] = fetch_rank[c]
           /\ head' = head \/ (\E d \in Consumers : d # c /\ fetch_rank'[d] = head)
           /\ \A it \in Items : CopiesIn(<<fetch_rank[c], it>>, returned') = 0

\* C15: dequeue waits for the producer.  A dequeue call whose rank r is at or
\* beyond tail neither returns a payload nor re-claims; a payload is returned
\* for r only after the producer published r, and it is the payload of that
\* enqueue; a dequeue started on the empty queue returns only after an enqueue
\* call has returned.
DequeueWaits ==
    /\ []TakenAfterPublish
    /\ [][\A c \in Consumers : WaitsForProducer(c)]_vars

\* no gap was ever written, and a consumer has polled the cell of a rank the
\* producer has not reached (its snapshot was taken after a first delivery)
C15_Witness ==
    /\ skipped = {}
    /\ \E c \in Consumers :
          /\ cpc[c] = "read"
          /\ fetch_rank[c] >= tail
          /\ lastItem[c] >= 1
          /\ BagCardinality(returned) >= 1

\* ------------------------------------------------------------ C16
\* the step with which the dequeue call of consumer c returns
DequeueReturns(c) == cpc[c] # "idle" /\ cpc'[c] = "idle"

\* a return of true: the call had copied the payload read at rank = fetch_rank
\* into *item, and the step of the return is the one that releases the cell
ReturnsTrue(c) ==
    /\ cpc[c] = "release"
    /\ cell_rank[c] = fetch_rank[c]
    /\ item[c] = cell_data[c]
    /\ item[c] = published[fetch_rank[c]]
    /\ cells'[Idx(fetch_rank[c], QSize)].rank = EMPTY_CELL
    /\ returned' = returned (+) SetToBag({<<fetch_rank[c], item[c]>>})

\* a return of false: the handle-based call has run MAX_RETRIES iterations; it
\* hands out nothing and writes nothing
ReturnsFalse(c) ==
    /\ impl = "opt"
    /\ cpc[c] = "read"
    /\ retry_count[c] = MAX_RETRIES
    /\ returned' = returned
    /\ region' = region

\* C16: dequeue result.  A dequeue call returns true only after it copied the
\* payload of the rank it finally holds and with the release of that cell; it
\* returns false only at the retry cap of the handle-based version; ffq_dequeue
\* never returns false; and nothing is handed out except by a return of true.
DequeueResult ==
    [][/\ \A c \in Consumers :
             DequeueReturns(c) => (ReturnsTrue(c) \/ ReturnsFalse(c))
       /\ returned' # returned => \E c \in Consumers : DequeueReturns(c) /\ ReturnsTrue(c)
      ]_vars

\* one handle-based call has returned false at the cap, another call has
\* returned a payload
C16_Witness ==
    /\ impl = "opt"
    /\ BagCardinality(returned) >= 1
    /\ \E c \in Consumers :
          /\ cpc[c] = "idle"
          /\ retry_count[c] = MAX_RETRIES
          /\ \A e \in BagToSet(returned) : e[1] # fetch_rank[c]

\* ------------------------------------------------------------ C17
\* some dequeue call in flight holds rank r
RankHeld(r) == \E c \in Consumers : InFlight(c) /\ fetch_rank[c] = r

\* a published rank that no call has returned yet can still be delivered: a
\* call in flight holds it, or head has not passed it (ranks are handed out
\* by head only, and head never goes back)
PublishedRankHeld ==
    \A r \in Ranks :
       (published[r] # NoItem /\ Deliveries(r) = 0) => (r >= head \/ RankHeld(r))

\* rank r has been delivered once and its cell has been released
DeliveredAndReleased(r) ==
    /\ Deliveries(r) = 1
    /\ cells[Idx(r, QSize)].rank # r

\* C17: retry exhaustion is harmless.  Also after dequeue calls have returned
\* false at the retry cap, and when their callers call dequeue again, a rank
\* that the producer publishes is not lost: it stays deliverable, its payload
\* is delivered to exactly one consumer, and its cell is released.
RetryExhaustionHarmless ==
    /\ []PublishedRankHeld
    /\ [](\A r \in Ranks : Deliveries(r) <= 1)
    /\ \A r \in Ranks : (published[r] # NoItem) ~> DeliveredAndReleased(r)

\* ------------------------------------------------------------ C18
\* the dequeue call of consumer c returns false
ReturnsFalseStep(c) == DequeueReturns(c) /\ cpc[c] = "read"

\* C18: the retry cap never fires while the producer makes progress.  A
\* dequeue call returns false only when the producer has stopped advancing
\* tail: it has enqueued all its items, or it has reached the last rank of the
\* model.  (Under FairSpecOpt a producer with work left keeps taking steps.)
RetryCapNeverFires ==
    [][\A c \in Consumers : ReturnsFalseStep(c) => ~ProducerHasWork]_vars

\* a call is about to return false although each of its MAX_RETRIES iterations
\* found a gap the producer had written, and the producer is still at work
SkipsExhaustRetries ==
    \E c \in Consumers :
       /\ impl = "opt"
       /\ cpc[c] = "read"
       /\ retry_count[c] = MAX_RETRIES
       /\ backoff_us[c] = BACKOFF_START
       /\ \A k \in 1..MAX_RETRIES : (fetch_rank[c] - k) \in skipped
       /\ ProducerHasWork

\* ------------------------------------------------------------ C19
\* the ranks for which a payload has been returned
ReturnedRanks == {e[1] : e \in BagToSet(returned)}

\* a return that hands out payload number n + 1 after n payloads, from a rank
\* above every rank returned before
NextInOrder ==
    returned' # returned =>
       \E r \in Ranks :
          /\ returned' = returned (+) SetToBag({<<r, BagCardinality(returned) + 1>>})
          /\ \A q \in ReturnedRanks : q < r

\* C19: single-consumer FIFO.  With exactly one consumer the n-th dequeue call
\* that returns a payload returns the n-th payload enqueued (payloads are
\* numbered 1, 2, ... in enqueue order), in every interleaving and also when
\* the ring has wrapped around.
SingleConsumerFIFO ==
    /\ [][NextInOrder]_vars
    /\ [](\A it \in Items : ItemDeliveries(it) = (IF it <= BagCardinality(returned) THEN 1 ELSE 0))

\* all payloads came out in order, the last from a reused cell, after a gap
C19_Witness ==
    /\ \A c \in Consumers : c # 1 => cpc[c] = "idle"
    /\ BagCardinality(returned) = NumItems
    /\ skipped # {}
    /\ \E r \in Ranks : r >= QSize /\ CopiesIn(<<r, NumItems>>, returned) = 1

\* ------------------------------------------------------------ C20
\* run_producer has returned and run_consumer has left its loop
RunFinished == ppc = "idle" /\ p_i = NumItems /\ cpc[1] = "finished"

\* The scenario of C20 with the sizes of the model: QSize cells, one consumer,
\* NumItems = QSize + 1 payloads (4 cells and 5 payloads in the claim).
\* C20 as stated: the payloads are delivered in the order 1, 2, ..., no gap is
\* ever written, and the run ends with head = NumItems.
SmallSequential ==
    /\ skipped = {}
    /\ \A it \in Items : ItemDeliveries(it) = (IF it <= BagCardinality(returned) THEN 1 ELSE 0)
    /\ RunFinished => (AllDelivered /\ head = NumItems)

\* a gap is written only into a cell that still holds a published rank no
\* dequeue has returned
GapOnlyWhenCellInUse ==
    skipped' # skipped =>
       LET r == cells[Idx(local_tail, QSize)].rank
       IN  /\ r >= 0
           /\ r < local_tail
           /\ published[r] # NoItem
           /\ Deliveries(r) = 0

\* C20 (amended): the payloads are delivered in the order 1, 2, ...; a gap is
\* written only when the producer finds the cell of its rank still holding an
\* unreleased payload; head never exceeds NumItems plus the number of gaps, and
\* the run ends with all payloads delivered and head = tail = NumItems plus the
\* number of gaps written (so with head = NumItems when none was).
SmallSequentialWithGaps ==
    /\ [][NextInOrder /\ GapOnlyWhenCellInUse]_vars
    /\ [](head <= NumItems + Cardinality(skipped))
    /\ [](RunFinished =>
             /\ AllDelivered
             /\ head = NumItems + Cardinality(skipped)
             /\ tail = head)

\* a finished run with a gap: head has gone past NumItems
C20_Witness ==
    /\ RunFinished
    /\ skipped # {}
    /\ head > NumItems
    /\ lastItemDequeued = NumItems

\* a finished run without any gap
RunFinishedWithoutGap ==
    /\ RunFinished
    /\ skipped = {}
    /\ head = NumItems

\* ------------------------------------------------------------ C21
\* the ranks that were skipped and re-claimed: the producer wrote a gap for the
\* rank, a consumer claimed it, and no call holds it any more (a call leaves a
\* rank it has not returned only through the skip branch)
SkippedAndReclaimed ==
    {r \in skipped : r < head /\ ~RankHeld(r)}

\* the skip branch of consumer c re-claims: the rank it leaves is a gap of the
\* producer, the rank it gets is a higher one
ReclaimsGap(c) ==
    (cpc[c] = "skip" /\ cpc'[c] = "read")
        => /\ fetch_rank[c] \in skipped
           /\ fetch_rank'[c] > fetch_rank[c]

\* the run of the scenario is over: the producer has enqueued every payload,
\* as many dequeue calls have returned, and no call holds a gap
GapRunOver ==
    /\ ppc = "idle"
    /\ p_i = NumItems
    /\ BagCardinality(returned) = NumItems
    /\ \A r \in skipped : ~RankHeld(r)

\* rank QSize (rank 2 of the scenario) met slot 0 still holding rank 0
GapAtFirstWrap == QSize \in skipped

\* C21 as stated: in a run where the producer processed rank QSize before slot
\* 0 was released, exactly one rank is skipped-and-re-claimed, and the payloads
\* delivered are exactly the enqueued ones, none twice.
GapCreation ==
    (GapAtFirstWrap /\ GapRunOver) =>
       /\ Cardinality(SkippedAndReclaimed) = 1
       /\ AllDelivered

\* C21 (amended): in such a run the ranks skipped-and-re-claimed are exactly
\* the ranks for which the producer wrote a gap: rank QSize and every later
\* rank that met an unreleased slot, one or more; every re-claim leaves a gap
\* rank for a higher rank; and the payloads delivered are exactly the enqueued
\* ones, none twice.
GapCreationManyGaps ==
    /\ [][\A c \in Consumers : ReclaimsGap(c)]_vars
    /\ [](\A r \in 0..MaxHead : Deliveries(r) <= 1)
    /\ []((GapAtFirstWrap /\ GapRunOver) =>
             /\ SkippedAndReclaimed = skipped
             /\ Cardinality(SkippedAndReclaimed) >= 1
             /\ AllDelivered)

\* the run is over and two ranks were skipped-and-re-claimed: ranks QSize and
\* QSize + 1 both met an unreleased slot
C21_Witness ==
    /\ GapAtFirstWrap
    /\ GapRunOver
    /\ AllDelivered
    /\ Cardinality(SkippedAndReclaimed) = 2

\* the run of the scenario as the specification tells it: one gap only
GapRunWithOneGap ==
    /\ GapAtFirstWrap
    /\ GapRunOver
    /\ SkippedAndReclaimed = {QSize}

\* ------------------------------------------------------------ C22
\* number of dequeue calls that returned item it for some rank <= n
RECURSIVE ReturnedCopies(_, _)
ReturnedCopies(it, n) ==
    IF n < 0 THEN 0 ELSE CopiesIn(<<n, it>>, returned) + ReturnedCopies(it, n - 1)

\* sentinels handed out so far
SentinelsReturned == ReturnedCopies(create_sentinel_item, MaxHead)

\* consumers that have left their dequeue loop
Finished == {c \in Consumers : cpc[c] = "finished"}

\* a consumer leaves its loop exactly with the return that hands it a
\* sentinel, and a consumer that has left takes no further step
LeavesOnSentinel(c) ==
    /\ (cpc[c] # "finished" /\ cpc'[c] = "finished")
          => /\ cpc[c] = "release"
             /\ returned' = returned (+) SetToBag({<<fetch_rank[c], create_sentinel_item>>})
    /\ (cpc[c] = "release" /\ cpc'[c] = "idle")
          => ~is_sentinel_item(item[c])
    /\ cpc[c] = "finished"
          => (cpc'[c] = "finished" /\ fetch_rank'[c] = fetch_rank[c])

\* the benchmark is over: every payload and every sentinel enqueued, every
\* consumer out of its loop
BenchmarkOver ==
    /\ p_i = BenchmarkCalls
    /\ Finished = Consumers

\* C22: sentinel termination.  When the producer has enqueued its
\* BENCHMARK_ITEMS payloads and then one sentinel per consumer, every consumer
\* eventually leaves its dequeue loop; a consumer leaves with the one sentinel
\* it receives (as many sentinels are handed out as consumers have left); and
\* when all have left, the non-sentinel payloads delivered are exactly the
\* BENCHMARK_ITEMS enqueued ones, each once.
SentinelTermination ==
    /\ (p_i = BenchmarkCalls) ~> (Finished = Consumers)
    /\ [][\A c \in Consumers : LeavesOnSentinel(c)]_vars
    /\ [](SentinelsReturned = Cardinality(Finished))
    /\ [](BenchmarkOver =>
             /\ SentinelsReturned = NumConsumers
             /\ BagCardinality(returned) = BENCHMARK_ITEMS + NumConsumers
             /\ \A it \in 1..BENCHMARK_ITEMS : ReturnedCopies(it, MaxHead) = 1)

\* the benchmark is over after the producer wrote a gap, and the producer has
\* stored its item count
C22_Witness ==
    /\ BenchmarkOver
    /\ skipped # {}
    /\ ppc = "done"
    /\ lastItemDequeued = BENCHMARK_ITEMS

\* ------------------------------------------------------------ C23
\* no process has taken a step of an enqueue or of a dequeue
NoOperationYet ==
    /\ ppc = "idle"
    /\ p_i = 0
    /\ \A c \in Consumers : cpc[c] = "idle"
    /\ claimed = <<>>

\* the region as the owner constructs it
RegionConstructed ==
    /\ size = queue_size
    /\ cells = EmptyCells(queue_size)
    /\ head = 0
    /\ tail = 0
    /\ lastItemDequeued = 0

\* C23: construction.  The first enqueue or dequeue step of any process
\* happens when the construction barrier is crossed (every process has entered
\* it, the owner after it initialised the region); from the barrier to that
\* first step every cell has rank = EMPTY_CELL and gap = EMPTY_CELL, head =
\* tail = 0 and the dequeue counter is 0.
ConstructionBarrier ==
    /\ [](~NoOperationYet => BarrierCrossed)
    /\ []((BarrierCrossed /\ NoOperationYet) => RegionConstructed)
    /\ [][(NoOperationYet /\ ~NoOperationYet') => (BarrierCrossed /\ RegionConstructed)]_vars

\* a consumer has claimed its first rank while the owner has not yet returned
\* from the barrier, on memory that held other values before ffq_init
C23_Witness ==
    /\ ~NoOperationYet
    /\ claimed = <<0>>
    /\ ipc[0] = "barrier"
    /\ ppc = "idle"

\* ------------------------------------------------------------ C24
\* the processes that went past the validation of parse_args
PastValidation == {p \in Procs : ipc[p] \notin {"start", "aborted"}}

ConsumerMoved == cvars' # cvars

\* what a step of an enqueue call leaves alone, and what it writes
EnqueueWrites ==
    /\ head' = head
    /\ size' = size
    /\ lastItemDequeued' = lastItemDequeued
    /\ \A i \in Slots : cells'[i].rank # cells[i].rank => cells'[i].rank >= 0

\* what a step of a dequeue call leaves alone, and what it writes
DequeueWrites ==
    /\ tail' = tail
    /\ size' = size
    /\ \A i \in Slots :
          /\ cells'[i].data = cells[i].data
          /\ cells'[i].gap = cells[i].gap
          /\ cells'[i].rank # cells[i].rank => cells'[i].rank = EMPTY_CELL

\* C25: write ownership.  A step of an enqueue changes nothing in the region
\* but a payload, a rank (to a non-negative value), a gap and tail: head, N
\* and the dequeue counter stay.  A step of a dequeue changes nothing but head,
\* a rank (to EMPTY_CELL) and the dequeue counter: every payload, every gap,
\* tail and N stay.
WriteOwnership ==
    [][/\ ProducerMoved => EnqueueWrites
       /\ ConsumerMoved => DequeueWrites
      ]_vars

\* every kind of write has happened: payload, rank, gap and tail by the
\* producer, head, rank = EMPTY_CELL and the counter by consumers
C25_Witness ==
    /\ tail > 0
    /\ head > 0
    /\ lastItemDequeued > 0
    /\ \E i \in Slots : cells[i].gap # EMPTY_CELL
    /\ \E i \in Slots : cells[i].rank = EMPTY_CELL /\ cells[i].data # NoItem
    /\ \E i \in Slots : cells[i].rank >= QSize

\* ------------------------------------------------------------ C26
\* the waits of consecutive polls of an unpublished rank, in microseconds
BackoffSequence == <<100, 200, 400, 800, 1600, 3200, 6400, 10000>>

\* the place of a wait in that sequence, 0 if it is not in it
BackoffPlace(b) ==
    IF \E k \in 1..Len(BackoffSequence) : BackoffSequence[k] = b
      THEN CHOOSE k \in 1..Len(BackoffSequence) : BackoffSequence[k] = b
      ELSE 0

\* the wait that follows a wait at place k
BackoffAfter(k) ==
    BackoffSequence[IF k < Len(BackoffSequence) THEN k + 1 ELSE k]

\* what a step of the dequeue call of consumer c does to its wait
BackoffStep(c) ==
    /\ (cpc[c] = "idle" /\ cpc'[c] = "read") => backoff_us'[c] = 100
    /\ (cpc[c] = "read" /\ retry_count'[c] = retry_count[c] + 1) =>
          backoff_us'[c] = (IF cpc'[c] = "read"
                              THEN BackoffAfter(BackoffPlace(backoff_us[c]))
                              ELSE backoff_us[c])
    /\ (cpc[c] = "skip" /\ cpc'[c] = "read") => backoff_us'[c] = 100

\* C26: adaptive backoff of the handle-based dequeue.  The wait starts at 100
\* microseconds, each consecutive wait for an unpublished rank moves it one
\* place on in 100, 200, 400, ..., 6400, 10000, 10000, ..., a skipped gap puts
\* it back to 100, and it is always a value of that sequence, so within
\* [100, 10000].
AdaptiveBackoff ==
    /\ [](\A c \in Consumers :
             /\ BackoffPlace(backoff_us[c]) > 0
             /\ backoff_us[c] >= 100
             /\ backoff_us[c] <= 10000)
    /\ [][\A c \in Consumers : BackoffStep(c)]_vars

\* the wait has reached 10000 and stayed there for one more poll
C26_Witness ==
    /\ cpc[1] = "read"
    /\ backoff_us[1] = 10000
    /\ retry_count[1] >= Len(BackoffSequence) + 1

\* ------------------------------------------------------------ C27
\* consumer c reads the dequeue counter in this step
PeekStep(c) == cpc[c] = "idle" /\ cpc'[c] \in {"call", "finished"}

\* C27: reading the dequeue counter is idempotent.  The read of run_consumer
\* returns the counter and changes no queue state (cells, head, tail, N, the
\* counter itself), so the counter still holds the value that was returned and
\* a read repeated with no enqueue or dequeue step in between returns it again.
PeekIdempotent ==
    [][\A c \in Consumers :
          PeekStep(c) =>
             /\ lastItem'[c] = lastItemDequeued
             /\ region' = region
             /\ size' = size
             /\ lastItemDequeued' = lastItem'[c]]_vars

\* two consumers have read the counter one after the other, after a dequeue,
\* and hold the same value
C27_Witness ==
    /\ \A c \in Consumers : cpc[c] = "call" /\ lastItem[c] = lastItemDequeued
    /\ lastItemDequeued > 0

\* ------------------------------------------------------------ C28
\* the handle of process p is constructed, in the handle-based build
HandleConstructed(p) == impl = "opt" /\ ipc[p] = "ready"

\* the size the handle of process p caches
CachedSizeOf(p) == IF p = 0 THEN p_local_size ELSE local_size[p]

\* the owner has written N
OwnerWroteSize == ipc[0] \in {"barrier", "ready"}

\* a poll of the handle-based dequeue reads the cell the cached size gives
PollReadsCachedIndex(c) ==
    (HandleConstructed(c) /\ cpc[c] = "read" /\ retry_count'[c] = retry_count[c] + 1) =>
        LET cell == cells[Idx(fetch_rank[c], CachedSizeOf(c))]
        IN  /\ cell_rank'[c] = cell.rank
            /\ cell_gap'[c] = cell.gap
            /\ cell_data'[c] = cell.data

\* a write of the handle-based enqueue goes to the cell the cached size gives
PutWritesCachedIndex ==
    (HandleConstructed(0) /\ cells' # cells /\ win_lock = "producer") =>
        \A i \in Slots :
            i # Idx(local_tail - 1, CachedSizeOf(0)) => cells'[i] = cells[i]

\* C28: cached size.  Once the handle of a process is constructed its cached
\* size is the N the owner wrote (the size given to the program); N in the
\* region is not modified after the owner wrote it; the cached value is not
\* written again, and the handle-based enqueue and dequeue reach their cell
\* through the cached value.
CachedSize ==
    /\ [](\A p \in Procs :
             HandleConstructed(p) =>
                 CachedSizeOf(p) = size /\ CachedSizeOf(p) = queue_size)
    /\ [][OwnerWroteSize => size' = size]_vars
    /\ [][\A p \in Procs :
             HandleConstructed(p) => CachedSizeOf(p)' = CachedSizeOf(p)]_vars
    /\ [][PutWritesCachedIndex /\ \A c \in Consumers : PollReadsCachedIndex(c)]_vars

\* every handle is constructed, the producer has gone round the ring and a
\* consumer holds a payload it read through its cached size
C28_Witness ==
    /\ \A p \in Procs : HandleConstructed(p)
    /\ tail > queue_size
    /\ \E c \in Consumers : cpc[c] = "release" /\ fetch_rank[c] >= queue_size

\* ------------------------------------------------------------ C29
\* consumer c takes the skip branch in this step
TakesSkipBranch(c) == cpc[c] = "read" /\ cpc'[c] = "skip"

\* the producer skipped rank r and did not publish it
ProducerSkipped(r) == r \in skipped /\ published[r] = NoItem

\* C29: skip soundness.  A consumer takes the skip branch for the rank r it
\* holds (gap >= r and rank # r read from cell r mod N) only if the producer
\* skipped r, and a rank the producer skipped is not published afterwards: no
\* rank that has been or will be published is skipped by its claimer, also
\* when the gap read is larger than r because the slot was skipped again.
SkipSoundness ==
    /\ [][\A c \in Consumers :
             TakesSkipBranch(c) =>
                 /\ cell_gap'[c] >= fetch_rank[c]
                 /\ cell_rank'[c] # fetch_rank[c]
                 /\ ProducerSkipped(fetch_rank[c])]_vars
    /\ [](\A c \in Consumers : cpc[c] = "skip" => ProducerSkipped(fetch_rank[c]))
    /\ [][\A r \in skipped : ProducerSkipped(r)']_vars

\* a consumer skips its rank on a gap that names a later skip of the same slot
C29_Witness ==
    \E c \in Consumers :
       /\ cpc[c] = "skip"
       /\ cell_gap[c] > fetch_rank[c]
       /\ cell_gap[c] \in skipped
       /\ Idx(cell_gap[c], QSize) = Idx(fetch_rank[c], QSize)

\* ------------------------------------------------------------ C30
\* the rank the producer is writing for
WritingRank == IF impl = "orig" THEN local_tail ELSE local_tail - 1

\* the payload of cell i is overwritten in this step
PayloadWritten(i) == cells'[i].data # cells[i].data

\* the rank of cell i is set to EMPTY in this step
MarkedEmpty(i) == cells'[i].rank = EMPTY_CELL /\ cells[i].rank # EMPTY_CELL

\* the payload of every published rank nobody has returned is in its cell
UncopiedPayloadKept ==
    win_lock = "free" =>
        \A r \in Ranks :
            (published[r] # NoItem /\ Deliveries(r) = 0) =>
                cells[Idx(r, QSize)].data = published[r]

\* C30: consumer-side release.  The producer writes a payload only after it
\* observed rank = EMPTY in the cell, and every rank published in that cell
\* before has by then been returned by its claimer, so no payload is
\* overwritten before its claimer copied it; a consumer writes EMPTY only
\* while it holds the copy of the payload of that cell.
ConsumerSideRelease ==
    /\ []UncopiedPayloadKept
    /\ [][\A i \in Slots :
             /\ PayloadWritten(i) =>
                   /\ ProducerMoved
                   /\ p_cell_rank = EMPTY_CELL
                   /\ i = Idx(WritingRank, QSize)
                   /\ \A r \in Ranks :
                         (r < WritingRank /\ Idx(r, QSize) = i /\ published[r] # NoItem)
                            => Deliveries(r) >= 1
             /\ MarkedEmpty(i) =>
                   \E c \in Consumers :
                      /\ cpc[c] = "release"
                      /\ cpc'[c] # "release"
                      /\ Idx(fetch_rank[c], QSize) = i
                      /\ item[c] = cells[i].data
                      /\ item[c] = published[fetch_rank[c]]]_vars

\* the producer writes a payload over one that its claimer copied and released
C30_Witness ==
    /\ ppc \in {"put_rank", "flush_ok"}
    /\ WritingRank >= QSize
    /\ cells[Idx(WritingRank, QSize)].data = p_item
    /\ Deliveries(WritingRank - QSize) = 1

\* ------------------------------------------------------------ C31
\* consumer c is inside a dequeue call
DequeueInFlight(c) == cpc[c] \in {"size", "read", "release", "skip"}

\* the number of dequeue calls that have returned a payload
PayloadsReturned == BagCardinality(returned)

\* C31: dequeue counter accuracy.  In test mode, where only the consumers
\* write the counter, whenever no dequeue call is in flight lastItemDequeued
\* is the number of dequeue calls that have returned a payload: no increment
\* of a consumer is lost or overwritten by another's.
CounterAccurate ==
    (\A c \in Consumers : ~DequeueInFlight(c)) => lastItemDequeued = PayloadsReturned

\* two payloads have been returned, no call is in flight, the counter says one
CounterLostIncrement ==
    /\ \A c \in Consumers : ~DequeueInFlight(c)
    /\ PayloadsReturned = 2
    /\ lastItemDequeued = 1

\* ------------------------------------------------------------ C32
\* run_producer has returned
ProducerFinished == p_i = NumItems /\ ppc = "idle"

\* every payload has been returned by a dequeue call
AllDequeued == ProducerFinished /\ PayloadsReturned = NumItems

\* no consumer is inside a dequeue call that can get no payload any more
NoConsumerStranded == AllDequeued => \A c \in Consumers : ~DequeueInFlight(c)

\* C32: test-mode termination.  Once the producer has enqueued num_items
\* payloads and all of them have been dequeued, no consumer is left inside a
\* dequeue call waiting for a rank that is never published, and every
\* consumer eventually reads lastItemDequeued >= num_items and leaves its loop.
TestModeTermination ==
    /\ []NoConsumerStranded
    /\ (AllDequeued ~> (\A c \in Consumers : cpc[c] = "finished"))

\* the counter is exact, yet a consumer waits in dequeue for the rank at tail
StrandedWithExactCounter ==
    /\ AllDequeued
    /\ lastItemDequeued = NumItems
    /\ \E c \in Consumers : cpc[c] = "read" /\ fetch_rank[c] >= tail

\* ------------------------------------------------------------ C33
\* the exclusive epoch of an enqueue loop iteration ends in this step
EnqueueEpochCloses == win_lock = "producer" /\ win_lock' = "free"

\* what one loop iteration of ffq_enqueue leaves in the region once its epoch
\* is closed: for the rank r it handled, tail = r + 1 and cell r mod N holds
\* the payload and rank r, or (the cell was in use) gap r and its rank as read
EnqueueEpochEffect ==
    LET r == tail' - 1
        cell == cells'[Idx(r, QSize)]
    IN  /\ tail' = local_tail'
        /\ IF p_i' = p_i + 1
             THEN cell.rank = r /\ cell.data = p_item
             ELSE cell.gap = r /\ cell.rank = p_cell_rank

\* what a consumer epoch of ffq_dequeue changes in the region: head by one, or
\* one cell from the rank held to EMPTY with the payload of that cell returned
DequeueEpochEffect ==
    /\ head' # head => (head' = head + 1 /\ cells' = cells)
    /\ (cells' # cells /\ win_lock = "free") =>
          \E c \in Consumers :
             LET i == Idx(fetch_rank[c], QSize)
             IN  /\ cells[i].rank = fetch_rank[c]
                 /\ cells' = [cells EXCEPT ![i].rank = EMPTY_CELL]
                 /\ lastItemDequeued' = lastItem[c] + 1
                 /\ returned' = returned (+) SetToBag({<<fetch_rank[c], cells[i].data>>})

\* C33: the handle-based operations refine the original ones.  Seen from the
\* other processes (between epochs) every change of the shared state by
\* ffq_enqueue_optimized / ffq_dequeue_optimized, and every payload returned,
\* is a change ffq_enqueue / ffq_dequeue make.
RefinesOriginal ==
    [][(EnqueueEpochCloses => EnqueueEpochEffect) /\ DequeueEpochEffect]_vars

\* the handle-based enqueue has published a rank the cell cannot hold in the
\* original: the rank that belongs to the next cell
RankOfNextCell ==
    /\ win_lock = "free"
    /\ \E i \in Slots : cells[i].rank >= 0 /\ Idx(cells[i].rank, QSize) # i

\* ------------------------------------------------------------ C34
\* the payloads that are published at a rank no consumer has claimed yet
PublishedUnclaimed == {r \in Ranks : published[r] # NoItem /\ r >= head}

\* the producer has kept publishing: each consumer could claim a published
\* rank and there would still be one left for the next claim
ProducerKeptPublishing == Cardinality(PublishedUnclaimed) >= NumConsumers

\* C34: dequeue is lock-free.  When the producer has kept publishing and one
\* consumer keeps taking steps, some dequeue call eventually returns a
\* payload, whatever the other consumers do (they may stop for good between
\* any two of their epochs, also while they hold a rank).
DequeueLockFree ==
    \A k \in 0..NumItems :
        (PayloadsReturned = k /\ ProducerKeptPublishing) ~> (PayloadsReturned > k)

\* consumer 2 sits on a published rank it has not released, and a payload of a
\* later rank has been returned
C34_Witness ==
    /\ cpc[2] \in {"read", "release"}
    /\ published[fetch_rank[2]] # NoItem
    /\ \E e \in BagToSet(returned) : e[1] > fetch_rank[2]

\* ------------------------------------------------------------ C35
\* the ranks that are claimed although the producer has not reached them
ClaimedAhead == {r \in 0..(MaxHead - 1) : tail <= r /\ r < head}

\* C35: bounded run-ahead of head.  With the uncapped dequeue and K consumers,
\* every claimed rank at or above tail is held by a dequeue call in flight,
\* and as a call holds one rank, head never exceeds tail + K.
BoundedRunAhead ==
    /\ head <= tail + NumConsumers
    /\ \A r \in ClaimedAhead :
          \E c \in Consumers : InFlight(c) /\ fetch_rank[c] = r

\* after the first wrap of the ring every consumer holds a rank at or above tail
C35_Witness ==
    /\ tail >= QSize
    /\ head = tail + NumConsumers
    /\ \A c \in Consumers : cpc[c] = "read" /\ fetch_rank[c] >= tail

\* ------------------------------------------------------------ C36
\* the ranks at which a payload was published
PublishedRanks == {r \in Ranks : published[r] # NoItem}

\* the cells that hold a published payload
CellsInUse == {i \in Slots : cells[i].rank >= 0}

\* payloads enqueued later were published at larger ranks (the payloads of
\* run_producer carry the number of their enqueue call)
OrderInHistory ==
    \A r1, r2 \in PublishedRanks : r1 < r2 => published[r1] < published[r2]

\* the ranks the cells hold are distinct and ordered as their payloads
OrderInCells ==
    \A i, j \in CellsInUse :
        i # j => /\ cells[i].rank # cells[j].rank
                 /\ (cells[i].rank < cells[j].rank) = (cells[i].data < cells[j].data)

\* every rank below tail was published or skipped, a rank was skipped only
\* for a cell found in use, and tail counts the publishes and the gap writes
FirstEmptyRank ==
    /\ \A r \in Ranks :
          r < tail => ((r \in PublishedRanks) # (r \in skipped))
    /\ \A r \in Ranks : r >= tail => (r \notin PublishedRanks /\ r \notin skipped)
    /\ tail = Cardinality(PublishedRanks) + Cardinality(skipped)

\* C36: ranks preserve enqueue order.  Between the epochs of the producer the
\* payloads are published at strictly increasing ranks in the order of the
\* enqueue calls, in the history as in the ranks the cells hold; each enqueue
\* publishes at the first rank at or after its starting tail whose cell it
\* found EMPTY (the ranks before it were skipped, each for a cell in use); and
\* tail is the number of ranks processed.
RanksPreserveOrder ==
    /\ [](win_lock = "free" => (OrderInHistory /\ OrderInCells /\ FirstEmptyRank))
    /\ [][skipped' # skipped => ~CellFree(p_cell_rank)]_vars

\* two cells hold the same rank
SameRankTwice ==
    /\ win_lock = "free"
    /\ \E i, j \in CellsInUse : i # j /\ cells[i].rank = cells[j].rank

\* ------------------------------------------------------------ C37
\* v may stand in the rank or gap field of cell i with the producer at t:
\* EMPTY, or a rank of that slot below t
FieldOfCell(v, i, t) ==
    \/ v = EMPTY_CELL
    \/ (v % QSize = i /\ 0 <= v /\ v < t)

\* C37: cell index invariant.  In every reachable state every cell i has rank
\* EMPTY or a value r with r mod N = i and 0 <= r < tail, and gap EMPTY or a
\* value g with g mod N = i and 0 <= g < tail.
CellIndexInvariant ==
    \A i \in Slots :
        FieldOfCell(cells[i].rank, i, tail) /\ FieldOfCell(cells[i].gap, i, tail)

\* C37, amended: the same in every state in which no enqueue epoch is open;
\* inside the epoch, where the rank or the gap is written before tail, the
\* bound is 0 <= r <= tail.
CellIndexBetweenEpochs ==
    \A i \in Slots :
        LET t == IF win_lock = "free" THEN tail ELSE tail + 1
        IN  FieldOfCell(cells[i].rank, i, t) /\ FieldOfCell(cells[i].gap, i, t)

\* after the wrap every cell holds a rank, one of them also a gap of its slot
C37_Witness ==
    /\ win_lock = "free"
    /\ \E i \in Slots : cells[i].rank >= QSize /\ cells[i].gap >= QSize
    /\ \A i \in Slots : cells[i].rank >= 0

\* the producer has written the rank of a cell and not yet tail
RankWrittenBeforeTail ==
    /\ ppc = "put_tail_ok"
    /\ cells[Idx(tail, QSize)].rank = tail

\* ------------------------------------------------------------ C38
\* the gap of cell i is written in this step
GapWritten(i) == cells'[i].gap # cells[i].gap

\* cell i holds a published rank below g that no dequeue has released
HoldsUnreleasedRank(i, g) ==
    LET r == cells[i].rank
    IN  /\ 0 <= r
        /\ r < g
        /\ published[r] # NoItem
        /\ Deliveries(r) = 0

\* C38: gap write precondition.  The producer writes gap = g at cell g mod N
\* only when that cell holds a published, not yet released rank r with
\* 0 <= r < g; no gap is written to a cell whose rank is EMPTY, and the write
\* changes neither the rank nor the payload of the cell.
GapWritePrecondition ==
    [][\A i \in Slots :
          GapWritten(i) =>
             LET g == cells'[i].gap
             IN  /\ ProducerMoved
                 /\ g % QSize = i
                 /\ cells[i].rank # EMPTY_CELL
                 /\ HoldsUnreleasedRank(i, g)
                 /\ cells'[i].rank = cells[i].rank
                 /\ cells'[i].data = cells[i].data]_vars

\* the producer has just written a gap into a cell whose payload a consumer
\* has copied and not yet released
C38_Witness ==
    /\ ppc = "put_tail_gap"
    /\ cells[Idx(local_tail, QSize)].gap = local_tail
    /\ \E c \in Consumers :
          cpc[c] = "release" /\ fetch_rank[c] = cells[Idx(local_tail, QSize)].rank

\* ------------------------------------------------------------ C39
\* the items stored and not yet returned, oldest first
BufferPending == SubSeq(stored, Len(got) + 1, Len(stored))

\* the number of items between buffer_head and buffer_tail
BufferCount == (buffer_tail - buffer_head + MAX_QUEUE_ITEMS) % MAX_QUEUE_ITEMS

\* the buffer holds the pending items, in order, from buffer_head on
BufferHoldsPending ==
    /\ Len(got) <= Len(stored)
    /\ BufferCount = Len(BufferPending)
    /\ \A k \in 1..Len(BufferPending) :
          data_buffer[(buffer_head + k - 1) % MAX_QUEUE_ITEMS] = BufferPending[k]

\* the listener leaves its critical section in this step
ListenerStores == lpc = "store" /\ lpc' = "generate"

\* gateway_get_next leaves its critical section in this step
GetNextReturns == gpc = "copy" /\ gpc' = "call"

\* C39: gateway buffer.  Under any interleaving of the listener thread and the
\* gateway_get_next calls the buffer holds at most MAX_QUEUE_ITEMS - 1 items;
\* an item that arrives when the buffer is full is dropped and the buffer is
\* left as it was; gateway_get_next returns false and leaves the buffer (and
\* *item) as it was when the buffer is empty, and otherwise returns the
\* oldest item; the items are returned in the order they arrived.
GatewayBuffer ==
    /\ [](/\ Len(stored) - Len(got) <= MAX_QUEUE_ITEMS - 1
          /\ BufferHoldsPending
          /\ got = SubSeq(stored, 1, Len(got))
          /\ \A j, k \in 1..Len(got) : j < k => got[j] < got[k])
    /\ [][/\ (ListenerStores /\ Len(BufferPending) = MAX_QUEUE_ITEMS - 1) =>
                 <<data_buffer, buffer_head, buffer_tail, stored>>'
                    = <<data_buffer, buffer_head, buffer_tail, stored>>
          /\ (ListenerStores /\ Len(BufferPending) < MAX_QUEUE_ITEMS - 1) =>
                 stored' = Append(stored, l_item)
          /\ (GetNextReturns /\ BufferPending = <<>>) =>
                 /\ g_result' = FALSE
                 /\ <<data_buffer, buffer_head, buffer_tail, g_item, got>>'
                       = <<data_buffer, buffer_head, buffer_tail, g_item, got>>
          /\ (GetNextReturns /\ BufferPending # <<>>) =>
                 /\ g_result' = TRUE
                 /\ g_item' = Head(BufferPending)
                 /\ got' = Append(got, g_item')]_vars

\* the buffer is full after it wrapped, an item was dropped and one returned
C39_Witness ==
    /\ Len(BufferPending) = MAX_QUEUE_ITEMS - 1
    /\ buffer_tail < buffer_head
    /\ next_id > Len(stored) + 1
    /\ g_result

====
